---- MODULE Spec2Model ----
(***************************************************************************)
(* Record store (src/src/storage.rs) and backup/retention engine           *)
(* (src/src/backup.rs) of the finance planner.                             *)
(*                                                                         *)
(* Spec           several processes each running one command on the same   *)
(*                record file: read_items, then (for an add) push a record *)
(*                and write_items, under the advisory file lock.           *)
(* SpecRetention  enforce_retention applied once to a drawn backup         *)
(*                directory, listing order and policy.                     *)
(* SpecSequence   a sequence of create_backup calls for one record file.   *)
(* SpecBackup     create_backup calls for the two configured record files, *)
(*                which share one backup directory.                        *)
(* SpecLoad       one process saving and loading collections of records:   *)
(*                the codec of the rows and write_items / read_items as    *)
(*                whole calls.                                             *)
(* SpecSnapshot   create_backup for a record file that may be missing, on  *)
(*                a file system whose calls may fail.                      *)
(* SpecColocated  create_backup with the backup directory set to the       *)
(*                directory of the record files.                           *)
(* SpecConcurrent processes that add a record and then back the file up,   *)
(*                create_backup in the steps copy, listing, deletion.      *)
(* SpecTies       enforce_retention on a directory whose entries have      *)
(*                equal or unreadable modification times.                  *)
(* SpecFault      Spec with every step of read_items and write_items       *)
(*                able to fail.                                            *)
(* SpecStream     Spec with read-only commands arriving for ever, under    *)
(*                fairness of the scheduler and of the lock.               *)
(* SpecCallers    the commands of the CLI and the actions of the UI on     *)
(*                items.csv, each with the calls it makes in their order.  *)
(***************************************************************************)
EXTENDS Integers, Sequences, FiniteSets, TLC

VARIABLES
    \* ---- record store ----
    file,       \* the record file: [exists, lines]
    shared,     \* processes holding the shared advisory lock on the file
    excl,       \* process holding the exclusive advisory lock, or NoProc
    pc,         \* pc[p]: position of process p in its command
    items,      \* items[p]: the in-memory Vec<ItemRecord> of process p
    got,        \* got[p]: what read_items returned to p
    woff,       \* woff[p]: number of lines p's writer has put into the file
    passed,     \* history: the initial collection of the file and every
                \* collection passed to write_items so far
    lockCount,  \* history: number of exclusive lock acquisitions so far
    readAt,     \* history: readAt[p] = lockCount when p took its shared lock
    lockAt,     \* history: lockAt[p] = ordinal of p's exclusive acquisition
    ioFailed,   \* history: some write_items returned an I/O error
    \* ---- backup manager ----
    cfg,        \* configuration: paths.items_csv, paths.money_csv, backup policy
    dir,        \* backup directory: file name -> [mtime, isFile]
    clock,      \* wall clock, in seconds (Local::now())
    mtick,      \* file system time stamp source: grows with every copy
    listing,    \* SpecRetention: the order in which read_dir lists the directory
    last,       \* history: the last call (source, dest, directory before, as listed)
    log,        \* history: <<source, dest>> of every create_backup call (dest is
                \* <<>> when the call copied nothing)
    source,     \* the record files create_backup is called for: path -> [exists, lines]
    dirExists,  \* the backup directory exists
    faults,     \* the steps of create_backup at which the file system may fail
    job         \* SpecConcurrent: job[p], the create_backup call process p is in

storeVars  == <<file, shared, excl, pc, items, got, woff,
                passed, lockCount, readAt, lockAt, ioFailed>>
backupVars == <<cfg, dir, clock, mtick, listing, last, log, source, dirExists, faults,
                job>>
vars       == <<storeVars, backupVars>>

\* The record store but for the processes' positions.
storeRest  == <<file, shared, excl, items, got, woff,
                passed, lockCount, readAt, lockAt, ioFailed>>

-----------------------------------------------------------------------------
(* Bounds of the model *)

NProcs == 3

\* SpecRetention: the drawn directory holds up to MaxFiles backups of the
\* stem, and keep_recent, keep_historical range over 0..MaxKeepDrawn.
MaxFiles == 11
MaxKeepDrawn == 3

\* SpecSequence: up to MaxCalls create_backup calls for one record file;
\* SpecBackup: up to MaxSharedCalls calls for the two record files; both with
\* keep_recent and keep_historical in 0..MaxKeep.
MaxCalls == 7
MaxSharedCalls == 4
MaxKeep == 2

\* Digits of the time stamp in a backup's name (14 in the code: the model's
\* clock stays below 10^TsWidth).
TsWidth == 2

\* SpecSnapshot: up to MaxSnapshotCalls create_backup calls for a record file
\* that is saved up to MaxSaves times, with keep_recent and keep_historical in
\* 0..MaxSnapshotKeep, into a directory that holds up to MaxOld backups.
MaxOld == 2
MaxSnapshotCalls == 1
MaxSaves == 1
MaxSnapshotKeep == 1

\* SpecTies: the drawn directory holds up to MaxTied backups of the stem whose
\* modification times are drawn from 1..MaxStamp or unreadable.
MaxTied == 3
MaxStamp == 2

\* SpecLoad: collections of up to MaxRecords records are saved, the initial
\* file holds up to MaxRows data rows, and the text of a timestamp has
\* DateWidth digits (the minutes since the epoch).
MaxRecords == 2
MaxRows == 2
DateWidth == 2

-----------------------------------------------------------------------------
(* Sequence helpers (Vec / iterator adaptors used by the code) *)

Max(a, b) == IF a >= b THEN a ELSE b
Min(a, b) == IF a <= b THEN a ELSE b

Range(s) == {s[i] : i \in 1..Len(s)}

\* Iterator::take(n)
Take(s, n) == SubSeq(s, 1, Min(n, Len(s)))

\* Iterator::skip(n)
Skip(s, n) == SubSeq(s, Min(n, Len(s)) + 1, Len(s))

\* Vec::reverse
Reverse(s) == [i \in 1..Len(s) |-> s[Len(s) + 1 - i]]

\* str::starts_with
StartsWith(n, prefix) ==
    /\ Len(prefix) <= Len(n)
    /\ SubSeq(n, 1, Len(prefix)) = prefix

\* Result: Ok(v) and Err(_). An Option is <<>> (None) or <<v>> (Some(v)).
Ok(v) == [ok |-> TRUE, val |-> v]
Err == [ok |-> FALSE, val |-> <<>>]

-----------------------------------------------------------------------------
(* Record store: src/src/storage.rs *)

Procs  == 1..NProcs
NoProc == 0

\* The record file: whether the path exists, and its lines.
Absent == [exists |-> FALSE, lines |-> <<>>]
Content(l) == [exists |-> TRUE, lines |-> l]

\* The header line the csv writer emits before the first record
\* ("id,date,product,..."); record lines are the records' ids, which are >= 0.
Header == -1

\* A record is identified by its id (Uuid::new_v4(): fresh for every add); the
\* record a process adds carries the process number, the record of the
\* initial file carries 0.
InitialCollection == <<0>>

\* WriterBuilder::has_headers(true) + serialize: the header goes out with the
\* first record, so an empty collection produces no line at all.
Encode(c) == IF Len(c) = 0 THEN <<>> ELSE <<Header>> \o c

\* ReaderBuilder::new() (has_headers = true) + deserialize: the first line is
\* the header and is skipped, every further line is one record.
Decode(f) == IF Len(f) = 0 THEN <<>> ELSE SubSeq(f, 2, Len(f))

\* A line that is no record (a field that does not parse): `result?`, line
\* 19, returns the error of the first such row.
Malformed == -2
RowsDecode(f) == \A i \in 2..Len(f) : f[i] # Malformed

\* write(2) of one line at line offset off of the file content f.
WriteAt(f, off, line) ==
    [i \in 1..Max(Len(f), off + 1) |-> IF i = off + 1 THEN line ELSE f[i]]

\* flock(LOCK_SH) is granted when no exclusive lock is held.
\* (Faulty variants: the shared lock is granted at once; the shared lock is
\* granted only when no lock at all is held.)
SharedFreeNoWait == TRUE
SharedFreeAlone == shared = {} /\ excl = NoProc
SharedFree == excl = NoProc

\* flock(LOCK_EX) is granted when no lock at all is held.
\* (Faulty variant: the exclusive lock is granted at once.)
ExclusiveFreeNoWait == TRUE
ExclusiveFree == shared = {} /\ excl = NoProc

\* file.unlock() of a shared lock / drop of the File.
SharedReleased(p) == shared \ {p}

\* Drop of the File when `?` returns an error: close(2) gives up the lock the
\* descriptor holds.
\* (Faulty variant: the exclusive lock outlives the failed call.)
SharedDropped(p) == shared \ {p}
ExclusiveLeaked(p) == excl
ExclusiveDropped(p) == IF excl = p THEN NoProc ELSE excl

\* The record file after a write_items that returned an error or whose
\* process died: nothing cleans up or restores, the file stays as the last
\* write(2) left it.
\* (Faulty variant: the unfinished file is removed.)
LeftBehindRemoved(f) == Absent
LeftBehind(f) == f

\* file.set_len(0)
\* (Faulty variant: the old content is left in place and written over.)
NotTruncated(f) == f
Truncated(f) == <<>>

\* !path.exists(), lines 11 and 47.
\* (Faulty variant: the test is left out and the path is opened in any case.)
MissingNever(f) == FALSE
Missing(f) == ~f.exists

\* No process has started its command.
StoreIdle ==
    /\ shared = {}
    /\ excl = NoProc
    /\ pc = [p \in Procs |-> "start"]
    /\ items = [p \in Procs |-> <<>>]
    /\ got = [p \in Procs |-> <<>>]
    /\ woff = [p \in Procs |-> 0]
    /\ passed = {Decode(file.lines)}
    /\ lockCount = 0
    /\ readAt = [p \in Procs |-> 0]
    /\ lockAt = [p \in Procs |-> 0]
    /\ ioFailed = FALSE

StoreInit ==
    /\ file \in {Absent, Content(Encode(InitialCollection))}
    /\ StoreIdle

\* read_items, lines 11-13: a missing file is an empty collection.
ReadExists(p) ==
    /\ pc[p] = "start"
    /\ IF Missing(file)
         THEN /\ pc' = [pc EXCEPT ![p] = "loaded"]
              /\ got' = [got EXCEPT ![p] = <<>>]
              /\ items' = [items EXCEPT ![p] = <<>>]
              /\ readAt' = [readAt EXCEPT ![p] = lockCount]
         ELSE /\ pc' = [pc EXCEPT ![p] = "r_lock"]
              /\ UNCHANGED <<got, items, readAt>>
    /\ UNCHANGED <<file, shared, excl, woff, passed, lockCount, lockAt, ioFailed, backupVars>>

\* read_items, lines 14-15: File::open, then the blocking file.lock_shared().
LockShared(p) ==
    /\ pc[p] = "r_lock"
    /\ SharedFree
    /\ shared' = shared \cup {p}
    /\ readAt' = [readAt EXCEPT ![p] = lockCount]
    /\ pc' = [pc EXCEPT ![p] = "r_read"]
    /\ UNCHANGED <<file, excl, items, got, woff, passed, lockCount, lockAt, ioFailed, backupVars>>

\* read_items, lines 16-21: decode every row of the file.
ReadRows(p) ==
    /\ pc[p] = "r_read"
    /\ RowsDecode(file.lines)
    /\ items' = [items EXCEPT ![p] = Decode(file.lines)]
    /\ pc' = [pc EXCEPT ![p] = "r_unlock"]
    /\ UNCHANGED <<file, shared, excl, got, woff, passed, lockCount, readAt, lockAt, ioFailed, backupVars>>

\* read_items, lines 22-23: file.unlock(), Ok(items).
ReadUnlock(p) ==
    /\ pc[p] = "r_unlock"
    /\ shared' = SharedReleased(p)
    /\ got' = [got EXCEPT ![p] = items[p]]
    /\ pc' = [pc EXCEPT ![p] = "loaded"]
    /\ UNCHANGED <<file, excl, items, woff, passed, lockCount, readAt, lockAt, ioFailed, backupVars>>

\* handle_items, ItemSub::List: the command only reads.
List(p) ==
    /\ pc[p] = "loaded"
    /\ pc' = [pc EXCEPT ![p] = "done"]
    /\ UNCHANGED <<file, shared, excl, items, got, woff, passed, lockCount, readAt, lockAt, ioFailed, backupVars>>

\* handle_items, ItemSub::Add, lines 126-143: push the new record and call
\* write_items with the whole vector.
Add(p) ==
    /\ pc[p] = "loaded"
    /\ items' = [items EXCEPT ![p] = Append(items[p], p)]
    /\ passed' = passed \cup {Append(items[p], p)}
    /\ pc' = [pc EXCEPT ![p] = "w_open"]
    /\ UNCHANGED <<file, shared, excl, got, woff, lockCount, readAt, lockAt, ioFailed, backupVars>>

\* write_items, lines 27-34: create_dir_all, open(read, write, create): a
\* missing file is created empty, an existing one is left as it is.
WriteOpen(p) ==
    /\ pc[p] = "w_open"
    /\ file' = IF ~file.exists THEN Content(<<>>) ELSE file
    /\ pc' = [pc EXCEPT ![p] = "w_lock"]
    /\ UNCHANGED <<shared, excl, items, got, woff, passed, lockCount, readAt, lockAt, ioFailed, backupVars>>

\* write_items, line 35: the blocking file.lock_exclusive().
LockExclusive(p) ==
    /\ pc[p] = "w_lock"
    /\ ExclusiveFree
    /\ excl' = p
    /\ lockCount' = lockCount + 1
    /\ lockAt' = [lockAt EXCEPT ![p] = lockCount + 1]
    /\ pc' = [pc EXCEPT ![p] = "w_trunc"]
    /\ UNCHANGED <<file, shared, items, got, woff, passed, readAt, ioFailed, backupVars>>

\* write_items, line 36: file.set_len(0); the file offset stays 0.
SetLen(p) ==
    /\ pc[p] = "w_trunc"
    /\ file' = Content(Truncated(file.lines))
    /\ woff' = [woff EXCEPT ![p] = 0]
    /\ pc' = [pc EXCEPT ![p] = "w_write"]
    /\ UNCHANGED <<shared, excl, items, got, passed, lockCount, readAt, lockAt, ioFailed, backupVars>>

\* write_items, lines 37-41: one line of the encoded collection reaches the
\* file (the writer's buffer may be flushed at any record); after the last
\* line the flush is complete.
Serialize(p) ==
    /\ pc[p] = "w_write"
    /\ IF woff[p] < Len(Encode(items[p]))
         THEN /\ file' = Content(WriteAt(file.lines, woff[p], Encode(items[p])[woff[p] + 1]))
              /\ woff' = [woff EXCEPT ![p] = woff[p] + 1]
              /\ pc' = pc
         ELSE /\ pc' = [pc EXCEPT ![p] = "w_unlock"]
              /\ UNCHANGED <<file, woff>>
    /\ UNCHANGED <<shared, excl, items, got, passed, lockCount, readAt, lockAt, ioFailed, backupVars>>

\* write_items, lines 42-43: file.unlock(), Ok(()).
WriteUnlock(p) ==
    /\ pc[p] = "w_unlock"
    /\ excl' = IF excl = p THEN NoProc ELSE excl
    /\ pc' = [pc EXCEPT ![p] = "done"]
    /\ UNCHANGED <<file, shared, items, got, woff, passed, lockCount, readAt, lockAt, ioFailed, backupVars>>

\* write_items, lines 36-41: set_len, serialize or flush returns an error (`?`
\* leaves the function, the File is dropped and its lock goes with it), or
\* the process dies there (the kernel closes its descriptors).
WriteFail(p) ==
    /\ pc[p] \in {"w_trunc", "w_write"}
    /\ excl' = ExclusiveDropped(p)
    /\ file' = LeftBehind(file)
    /\ ioFailed' = TRUE
    /\ pc' = [pc EXCEPT ![p] = "failed"]
    /\ UNCHANGED <<shared, items, got, woff, passed, lockCount, readAt, lockAt, backupVars>>

StoreNext ==
    \E p \in Procs :
        \/ ReadExists(p)
        \/ LockShared(p)
        \/ ReadRows(p)
        \/ ReadUnlock(p)
        \/ List(p)
        \/ Add(p)
        \/ WriteOpen(p)
        \/ LockExclusive(p)
        \/ SetLen(p)
        \/ Serialize(p)
        \/ WriteUnlock(p)
        \/ WriteFail(p)

-----------------------------------------------------------------------------
(* Backup manager: src/src/backup.rs *)

\* File names are sequences of characters, so that starts_with is the real
\* prefix test.
Digits == <<"0", "1", "2", "3", "4", "5", "6", "7", "8", "9">>

items_csv   == <<"i", "t", "e", "m", "s", ".", "c", "s", "v">>
money_csv   == <<"m", "o", "n", "e", "y", ".", "c", "s", "v">>
item_csv    == <<"i", "t", "e", "m", ".", "c", "s", "v">>
apples_csv  == <<"a", "p", "p", "l", "e", "s", ".", "c", "s", "v">>
oranges_csv == <<"o", "r", "a", "n", "g", "e", "s", ".", "c", "s", "v">>

\* A file name without extension, and a file name whose stem is not valid
\* UTF-8 (NotUtf8 stands for a byte sequence that is no character).
NotUtf8    == "?"
ledger     == <<"l", "e", "d", "g", "e", "r">>
binary_csv == <<NotUtf8, ".", "c", "s", "v">>

\* OsStr::to_str() is Some for valid UTF-8.
to_str_ok(name) == \A i \in 1..Len(name) : name[i] # NotUtf8

\* Position of the last "." of a file name, 0 if there is none.
LastDot(name) ==
    LET dots == {i \in 1..Len(name) : name[i] = "."}
    IN  IF dots = {} THEN 0 ELSE CHOOSE i \in dots : \A j \in dots : j <= i

\* source.file_stem().and_then(|s| s.to_str()).unwrap_or("file"), lines
\* 17-20: the name up to its last ".", the whole name if it has no "." after
\* its first character; "file" without a name or if the stem is not UTF-8.
file_stem(name) ==
    LET stem == IF LastDot(name) <= 1 THEN name
                ELSE SubSeq(name, 1, LastDot(name) - 1)
    IN  IF Len(name) = 0 \/ ~to_str_ok(stem) THEN <<"f", "i", "l", "e">>
        ELSE stem

\* source.extension().and_then(|e| e.to_str()).unwrap_or("bak"), line 21:
\* what follows the last "."; "bak" if there is none or it is not UTF-8.
extension(name) ==
    LET ext == SubSeq(name, LastDot(name) + 1, Len(name))
    IN  IF Len(name) = 0 \/ LastDot(name) <= 1 \/ ~to_str_ok(ext)
          THEN <<"b", "a", "k">>
        ELSE ext

\* Local::now().format("%Y%m%d%H%M%S"): fixed width, most significant digit
\* first, so later seconds give lexically later strings. The model's clock
\* counts seconds and is shown with TsWidth digits.
RECURSIVE FormatDigits(_, _)
FormatDigits(t, width) ==
    IF width = 0 THEN <<>>
    ELSE Append(FormatDigits(t \div 10, width - 1), Digits[(t % 10) + 1])

\* backup.rs line 23: format!("{}_{}.{}", stem, ts, ext)
DestName(stem, t, ext, width) ==
    stem \o <<"_">> \o FormatDigits(t, width) \o <<".">> \o ext

\* fs::metadata(p).and_then(|m| m.modified()).ok(): the sort key of a path.
ModifiedKey(d, n) == d[n].mtime

\* Vec::sort_by_key (stable, ascending) on the modification time, as an
\* insertion sort: an element goes after every element whose key is not larger.
RECURSIVE sort_by_key(_, _)
sort_by_key(paths, d) ==
    IF Len(paths) <= 1 THEN paths
    ELSE LET front == sort_by_key(SubSeq(paths, 1, Len(paths) - 1), d)
             x     == paths[Len(paths)]
             k     == Cardinality({i \in 1..Len(front) :
                                     ModifiedKey(d, front[i]) <= ModifiedKey(d, x)})
         IN  SubSeq(front, 1, k) \o <<x>> \o SubSeq(front, k + 1, Len(front))

\* Iterator::step_by(step): elements 0, step, 2*step, ... of the sequence.
step_by(s, step) ==
    [i \in 1..((Len(s) + step - 1) \div step) |-> s[(i - 1) * step + 1]]

\* The stride of pick_historical, line 77.
\* (Faulty variant: the quotient rounded up.)
StrideCeiling(len, count) == Max(1, (len + count - 1) \div count)
Stride(len, count) == Max(1, len \div count)

\* pick_historical, lines 73-79.
\* (Faulty variant: the samples are taken from the oldest entry upwards.)
pick_historical_from_oldest(paths, count) ==
    IF count = 0 \/ Len(paths) = 0 THEN <<>>
    ELSE Take(step_by(Reverse(paths), Stride(Len(paths), count)), count)
pick_historical(paths, count) ==
    IF count = 0 \/ Len(paths) = 0 THEN <<>>
    ELSE Take(step_by(paths, Stride(Len(paths), count)), count)

\* enforce_retention, lines 30-40: the entries of the listing whose name
\* starts with the stem, sorted by modification time, newest first.
\* (Faulty variants: the stem filter left out; the reverse left out.)
CandidatesUnfiltered(d, lst, stem) == Reverse(sort_by_key(lst, d))
CandidatesOldestFirst(d, lst, stem) ==
    sort_by_key(SelectSeq(lst, LAMBDA n : StartsWith(n, stem)), d)
Candidates(d, lst, stem) ==
    Reverse(sort_by_key(SelectSeq(lst, LAMBDA n : StartsWith(n, stem)), d))

\* enforce_retention, lines 42-46: nothing to do at or below the threshold.
WithinPolicy(n, keep_recent, keep_hist) == n <= keep_recent + keep_hist

\* enforce_retention, lines 48-56: keep_paths = recent ++ hist.
\* (Faulty variant: the historical picks left out.)
KeepPathsRecentOnly(paths, keep_recent, keep_hist) == Range(Take(paths, keep_recent))
KeepPaths(paths, keep_recent, keep_hist) ==
    LET recent == Take(paths, keep_recent)
        rest   == Skip(paths, keep_recent)
        hist   == pick_historical(rest, keep_hist)
    IN  Range(recent \o hist)

\* enforce_retention, lines 58-69: the names the second pass calls
\* fs::remove_file for.
\* (Faulty variant: the stem test left out of the deletion pass.)
RemovedAnyStem(d, stem, keep_paths) ==
    {n \in DOMAIN d : d[n].isFile /\ n \notin keep_paths}
Removed(d, stem, keep_paths) ==
    {n \in DOMAIN d : StartsWith(n, stem) /\ d[n].isFile /\ n \notin keep_paths}

\* What the file system does to one call: the step that fails ("none", or
\* "create_dir_all" line 16, "copy" line 24, "read_dir" line 30, "read_dir2"
\* line 58, "entry" line 59 at position `at` of the listing), and the files
\* that fs::remove_file (line 67) cannot delete.
NoFault == [step |-> "none", at |-> 0, locked |-> {}]

FaultSteps == {"create_dir_all", "copy", "read_dir", "read_dir2", "entry", "remove_file"}

\* The faults that may strike a call that finds the names `names` in the
\* directory: one failing step, or one file that cannot be deleted.
FaultsOn(names, enabled) ==
    {NoFault}
    \cup {[step |-> st, at |-> 0, locked |-> {}] :
              st \in enabled \cap {"create_dir_all", "copy", "read_dir", "read_dir2"}}
    \cup {[step |-> "entry", at |-> k, locked |-> {}] :
              k \in IF "entry" \in enabled THEN 1..Cardinality(names) ELSE {}}
    \cup {[step |-> "none", at |-> 0, locked |-> {n}] :
              n \in IF "remove_file" \in enabled THEN names ELSE {}}

\* Position of name n in listing lst.
Pos(lst, n) == CHOOSE i \in 1..Len(lst) : lst[i] = n

\* The loop of lines 58-69 over the listing lst: of the names to remove,
\* those that are gone when the loop ends. `let _ = fs::remove_file(path)`
\* ignores a failed delete; `entry?` leaves the loop at the entry that cannot
\* be read.
\* (Faulty variant: the loop also ends at the first delete that fails.)
DeletedUntilFailure(gone, lst, flt) ==
    {n \in gone :
        /\ n \notin flt.locked
        /\ \A m \in gone \cap flt.locked : Pos(lst, n) < Pos(lst, m)
        /\ flt.step = "entry" => Pos(lst, n) < flt.at}
Deleted(gone, lst, flt) ==
    {n \in gone :
        /\ n \notin flt.locked
        /\ flt.step = "entry" => Pos(lst, n) < flt.at}

\* enforce_retention(dir, stem, policy) on directory d listed in order lst
\* under fault flt: the directory it leaves and whether it returns Ok. Both
\* read_dir passes see the same directory in the same order (one process).
enforce_retention(d, lst, stem, keep_recent, keep_hist, flt) ==
    LET paths == Candidates(d, lst, stem)
    IN  IF flt.step = "read_dir" THEN [dir |-> d, ok |-> FALSE]
        ELSE IF WithinPolicy(Len(paths), keep_recent, keep_hist)
          THEN [dir |-> d, ok |-> TRUE]
        ELSE IF flt.step = "read_dir2" THEN [dir |-> d, ok |-> FALSE]
        ELSE LET gone == Deleted(Removed(d, stem, KeepPaths(paths, keep_recent, keep_hist)),
                                 lst, flt)
             IN  [dir |-> [n \in DOMAIN d \ gone |-> d[n]],
                  ok  |-> ~(flt.step = "entry" /\ flt.at <= Len(lst))]

BackupIdle ==
    /\ cfg = <<>>
    /\ dir = <<>>
    /\ clock = 0
    /\ mtick = 0
    /\ listing = <<>>
    /\ last = <<>>
    /\ log = <<>>
    /\ source = <<>>
    /\ dirExists = FALSE
    /\ faults = {}
    /\ job = <<>>

\* fs::read_dir lists a directory in no particular order. The orders tried:
\* the rotations of a base order and of its reverse, and the base order with
\* its odd positions before its even ones.
Rotate(s, k) == [i \in 1..Len(s) |-> s[((i - 1 + k) % Len(s)) + 1]]
OddsThenEvens(s) ==
    [i \in 1..Len(s) |->
        IF i <= (Len(s) + 1) \div 2 THEN s[2 * i - 1]
        ELSE s[2 * (i - (Len(s) + 1) \div 2)]]
Orders(base) ==
    IF Len(base) = 0 THEN {<<>>}
    ELSE {Rotate(base, k) : k \in 0..(Len(base) - 1)}
         \cup {Rotate(Reverse(base), k) : k \in 0..(Len(base) - 1)}
         \cup {OddsThenEvens(base)}

RECURSIVE SetToSeq(_)
SetToSeq(S) ==
    IF S = {} THEN <<>>
    ELSE LET x == CHOOSE y \in S : TRUE IN <<x>> \o SetToSeq(S \ {x})

\* The listings tried for a directory inside a create_backup call.
Listings(d) ==
    LET base == SetToSeq(DOMAIN d)
    IN  {base, Reverse(base), OddsThenEvens(base)}

Sources(c) == {c.items_csv, c.money_csv}

(* ---- SpecRetention: one enforce_retention call on a drawn directory ---- *)

DrawnStem == file_stem(items_csv)
DrawnName(t) == DestName(DrawnStem, t, extension(items_csv), TsWidth)

\* A sub-directory whose name starts with the stem, and a backup of another
\* record file.
DrawnSubdir  == DrawnStem \o <<"_", "o", "l", "d">>
DrawnForeign == DestName(file_stem(money_csv), 1, extension(money_csv), TsWidth)

\* The drawn directory: n backups of the stem whose modification times
\* follow their names (up) or run against them (~up), with or without the
\* sub-directory (as its newest or its oldest entry) and the foreign file.
DrawnDir(n, up, subdir, foreign) ==
    LET names == {DrawnName(t) : t \in 1..n}
                 \cup (IF subdir = "none" THEN {} ELSE {DrawnSubdir})
                 \cup (IF foreign THEN {DrawnForeign} ELSE {})
        stamp(t) == IF up THEN t ELSE n + 1 - t
    IN  [x \in names |->
            IF x = DrawnSubdir
              THEN [mtime |-> IF subdir = "newest" THEN n + 1 ELSE 0, isFile |-> FALSE,
                    bytes |-> <<>>]
            ELSE IF x = DrawnForeign /\ foreign
              THEN [mtime |-> n + 2, isFile |-> TRUE, bytes |-> <<>>]
            ELSE [mtime |-> stamp(CHOOSE t \in 1..n : DrawnName(t) = x),
                  isFile |-> TRUE, bytes |-> <<>>]]

DrawnBase(n, subdir, foreign) ==
    [t \in 1..n |-> DrawnName(t)]
    \o (IF subdir = "none" THEN <<>> ELSE <<DrawnSubdir>>)
    \o (IF foreign THEN <<DrawnForeign>> ELSE <<>>)

RetentionInit ==
    /\ StoreInit
    /\ file = Absent
    /\ \E kr \in 0..MaxKeepDrawn, kh \in 0..MaxKeepDrawn :
          cfg = [items_csv |-> items_csv, money_csv |-> money_csv,
                 keep_recent |-> kr, keep_historical |-> kh]
    /\ \E n \in 0..MaxFiles, up \in BOOLEAN,
          subdir \in {"none", "newest", "oldest"}, foreign \in BOOLEAN :
          /\ dir = DrawnDir(n, up, subdir, foreign)
          /\ listing \in Orders(DrawnBase(n, subdir, foreign))
    /\ clock = 0
    /\ mtick = 0
    /\ last = [op |-> "none"]
    /\ log = <<>>
    /\ source = <<>>
    /\ dirExists = TRUE
    /\ faults = {}
    /\ job = <<>>

\* enforce_retention(dir, stem, policy), lines 29-71, with no file system
\* call failing.
EnforceRetention ==
    /\ last.op = "none"
    /\ dir' = enforce_retention(dir, listing, DrawnStem,
                                cfg.keep_recent, cfg.keep_historical, NoFault).dir
    /\ last' = [op |-> "enforce_retention", stem |-> DrawnStem, pre |-> dir]
    /\ UNCHANGED <<cfg, clock, mtick, listing, log, source, dirExists, faults, job,
                   storeVars>>

RetentionNext == EnforceRetention

(* ---- SpecBackup: a sequence of create_backup calls ---- *)

\* The record files of the configuration (PathsConfig), which share
\* paths.backup_dir: the default pair, a pair of which one stem is a prefix
\* of the other, and a pair of unrelated stems.
\* paths.backup_dir: the default directory "backups" next to the data
\* directory, or the data directory itself, which holds the record files.
BackupsDir == "backups"
DataDir    == "data"

\* With the record files in the backup directory, `dir` holds them too; a
\* record file whose entry d no longer has does not exist any more.
SourceIn(d) ==
    IF cfg.backup_dir = DataDir
      THEN [s \in DOMAIN source |-> IF s \in DOMAIN d THEN source[s] ELSE Absent]
      ELSE source

PathPairs == {<<items_csv, money_csv>>, <<item_csv, items_csv>>,
              <<apples_csv, oranges_csv>>}

BackupInit ==
    /\ StoreInit
    /\ file = Absent
    /\ \E pp \in PathPairs, kr \in 0..MaxKeep, kh \in 0..MaxKeep :
          cfg = [items_csv |-> pp[1], money_csv |-> pp[2], backup_dir |-> BackupsDir,
                 keep_recent |-> kr, keep_historical |-> kh]
    /\ dir = <<>>
    /\ clock = 0
    /\ mtick = 0
    /\ listing = <<>>
    /\ last = [op |-> "none"]
    /\ log = <<>>
    /\ source = [s \in Sources(cfg) |-> Content(<<0>>)]
    /\ dirExists = FALSE
    /\ faults = {}
    /\ job = <<>>

\* fs::copy(source, &dest), line 24: dest is created or overwritten with the
\* bytes of the source and gets the time of the copy as its modification time.
\* (Faulty variant: dest is created but receives no bytes.)
CopiedEmpty(d, dest, stamp, bytes) ==
    [n \in DOMAIN d \cup {dest} |->
        IF n = dest THEN [mtime |-> stamp, isFile |-> TRUE, bytes |-> <<>>]
        ELSE d[n]]
Copied(d, dest, stamp, bytes) ==
    [n \in DOMAIN d \cup {dest} |->
        IF n = dest THEN [mtime |-> stamp, isFile |-> TRUE, bytes |-> bytes]
        ELSE d[n]]

\* fs::copy(source, &dest) returns an error, line 24: the source could not be
\* opened and dest is untouched, or dest was created (or emptied, if it was
\* there) and the bytes did not arrive. `?` returns the error: line 25 is
\* not reached.
\* (Faulty variant: the retention pass runs after the failed copy.)
CopyFailedThenPruned(d, dest, stamp, stem) ==
    {enforce_retention(x, SetToSeq(DOMAIN x), stem, cfg.keep_recent,
                       cfg.keep_historical, NoFault).dir :
        x \in {d, Copied(d, dest, stamp, <<>>)}}
CopyFailed(d, dest, stamp, stem) == {d, Copied(d, dest, stamp, <<>>)}

\* !source.exists(), line 13.
\* (Faulty variant: the test is left out.)
SourceMissingNever(f) == FALSE
SourceMissing(f) == ~f.exists

\* create_backup(source, backup_dir, policy), lines 8-27, called dt seconds
\* after the previous call (0: within the same second). History: last.ret is
\* what the call returns (Ok(<<>>) for Ok(None), Ok(<<dest>>) for
\* Ok(Some(dest)), Err), last.found the source as the call found it,
\* last.pre and last.hadDir the backup directory before the call, last.listed
\* the directory after the copy, last.fault what the file system did.
CreateBackup(src, dt) ==
    /\ Len(log) < MaxCalls
    /\ clock' = clock + dt
    /\ LET stem == file_stem(src)
           dest == DestName(stem, clock + dt, extension(src), TsWidth)
           call == [op |-> "create_backup", src |-> src, dest |-> dest,
                    pre |-> dir, hadDir |-> dirExists, found |-> source[src]]
       IN  IF SourceMissing(source[src])
             THEN \* lines 13-15
                  /\ last' = call @@ [listed |-> dir, copied |-> FALSE,
                                      fault |-> NoFault, ret |-> Ok(<<>>)]
                  /\ log' = Append(log, <<src, <<>>>>)
                  /\ UNCHANGED <<dir, dirExists, mtick>>
             ELSE \E flt \in FaultsOn(DOMAIN dir \cup {dest}, faults) :
                  IF flt.step = "create_dir_all"
                    THEN \* line 16 fails
                         /\ last' = call @@ [listed |-> dir, copied |-> FALSE,
                                             fault |-> flt, ret |-> Err]
                         /\ log' = Append(log, <<src, <<>>>>)
                         /\ UNCHANGED <<dir, dirExists, mtick>>
                  ELSE IF flt.step = "copy"
                    THEN \* line 24 fails
                         /\ dirExists' = TRUE
                         /\ dir' \in CopyFailed(dir, dest, mtick + 1, stem)
                         /\ mtick' = IF dir' = dir THEN mtick ELSE mtick + 1
                         /\ last' = call @@ [listed |-> dir, copied |-> FALSE,
                                             fault |-> flt, ret |-> Err]
                         /\ log' = Append(log, <<src, <<>>>>)
                  ELSE \* lines 16-26
                       LET copied == Copied(dir, dest, mtick + 1, source[src].lines)
                       IN  \E lst \in Listings(copied) :
                           LET out == enforce_retention(copied, lst, stem, cfg.keep_recent,
                                                        cfg.keep_historical, flt)
                           IN  /\ dirExists' = TRUE
                               /\ dir' = out.dir
                               /\ mtick' = mtick + 1
                               /\ last' = call @@ [listed |-> copied, copied |-> TRUE,
                                                   fault |-> flt,
                                                   ret |-> IF out.ok THEN Ok(<<dest>>)
                                                           ELSE Err]
                               /\ log' = Append(log, <<src, dest>>)
    /\ source' = SourceIn(dir')
    /\ UNCHANGED <<cfg, listing, faults, job, storeVars>>

BackupItems == \E dt \in 0..1 : CreateBackup(cfg.items_csv, dt)
BackupMoney == \E dt \in 0..1 : CreateBackup(cfg.money_csv, dt)

\* One record file is backed up again and again.
SequenceNext == BackupItems

\* Both record files are backed up into the shared directory.
SharedBackupItems == Len(log) < MaxSharedCalls /\ BackupItems
SharedBackupMoney == Len(log) < MaxSharedCalls /\ BackupMoney

BackupNext == SharedBackupItems \/ SharedBackupMoney

(* ---- SpecSnapshot: create_backup on a file system that may fail ---- *)

\* The record file backed up: the default one, one without extension and
\* one whose stem is not UTF-8.
SnapshotPairs == {<<items_csv, money_csv>>, <<ledger, money_csv>>,
                  <<binary_csv, money_csv>>}

\* The backups of the record file that earlier runs left in the directory.
OldBackups(src, n) ==
    [x \in {DestName(file_stem(src), t, extension(src), TsWidth) : t \in 1..n} |->
        [mtime |-> CHOOSE t \in 1..n :
                      DestName(file_stem(src), t, extension(src), TsWidth) = x,
         isFile |-> TRUE, bytes |-> <<0>>]]

\* The record file exists or not, the backup directory does not exist or
\* holds earlier backups of the file, the newest of them named for the current
\* second or for the next one (the second of the call), and every step of
\* create_backup may fail.
SnapshotInit ==
    /\ StoreInit
    /\ file = Absent
    /\ \E pp \in SnapshotPairs, kr \in 0..MaxSnapshotKeep, kh \in 0..MaxSnapshotKeep :
          cfg = [items_csv |-> pp[1], money_csv |-> pp[2], backup_dir |-> BackupsDir,
                 keep_recent |-> kr, keep_historical |-> kh]
    /\ \E old \in 0..MaxOld :
          /\ dir = OldBackups(cfg.items_csv, old)
          /\ dirExists = (old > 0)
          /\ clock \in {old, Max(old - 1, 0)}
          /\ mtick = old
    /\ listing = <<>>
    /\ last = [op |-> "none"]
    /\ log = <<>>
    /\ \E f \in {Absent, Content(<<0>>)} :
          source = [s \in Sources(cfg) |-> IF s = cfg.items_csv THEN f ELSE Absent]
    /\ faults = FaultSteps
    /\ job = <<>>

\* The caller saves the record file (write_items, cli.rs line 143): the file
\* exists afterwards and its content is new.
SaveSource(src) ==
    /\ LET saves == IF source[src].exists THEN source[src].lines[1] ELSE 0
       IN  /\ saves < MaxSaves
           /\ source' = [source EXCEPT ![src] = Content(<<saves + 1>>)]
           /\ IF cfg.backup_dir = DataDir
                THEN /\ dir' = Copied(dir, src, mtick + 1, <<saves + 1>>)
                     /\ mtick' = mtick + 1
                ELSE UNCHANGED <<dir, mtick>>
    /\ UNCHANGED <<cfg, clock, listing, last, log, dirExists, faults, job, storeVars>>

SaveItems == SaveSource(cfg.items_csv)

\* A call is made one second after the clock's initial value or after the
\* previous call.
SnapshotItems == Len(log) < MaxSnapshotCalls /\ CreateBackup(cfg.items_csv, 1)

SnapshotNext == SaveItems \/ SnapshotItems

-----------------------------------------------------------------------------
(* Record codec: src/src/storage.rs, lines 82-185, and the rows of the file *)

\* A record (ItemRecord / MoneyRecord) is modelled by its identifier, its
\* timestamp, one numeric field (cost / amount) and its optional field
\* (overall_score / linked_item_id): [id, date, cost, opt]. A DateTime<Local>
\* is a number of seconds; an Option is <<>> (None) or <<v>> (Some(v)).
\* A row of the file is the sequence of its fields, each a sequence of
\* characters.

\* DATE_FMT = "%Y-%m-%d %H:%M": the text of a timestamp stops at the minute.
SecondsPerMinute == 60

IsDigit(ch) == \E d \in 1..Len(Digits) : Digits[d] = ch
DigitValue(ch) == (CHOOSE d \in 1..Len(Digits) : Digits[d] = ch) - 1

\* Display of a number: its decimal digits, without padding.
RECURSIVE FormatNat(_)
FormatNat(n) ==
    IF n < 10 THEN <<Digits[n + 1]>>
    ELSE Append(FormatNat(n \div 10), Digits[(n % 10) + 1])

\* FromStr of a number: Ok for a non-empty sequence of digits.
IsNat(text) == Len(text) > 0 /\ \A i \in 1..Len(text) : IsDigit(text[i])

RECURSIVE ParseNat(_)
ParseNat(text) ==
    IF Len(text) = 0 THEN 0
    ELSE 10 * ParseNat(SubSeq(text, 1, Len(text) - 1)) + DigitValue(text[Len(text)])

\* date.format(DATE_FMT).to_string(), lines 128 and 177.
FormatDate(date) == FormatDigits(date \div SecondsPerMinute, DateWidth)

\* Local.datetime_from_str(&self.date, DATE_FMT): Ok for a text of the shape
\* of the format; the instant is the start of that minute.
DateParses(text) == Len(text) = DateWidth /\ IsNat(text)
ParseDate(text) == ParseNat(text) * SecondsPerMinute

\* into_record, lines 102-104 and 158-160: .unwrap_or_else(|_| Local::now()).
\* (Faulty variant: an unparsable date becomes the epoch.)
DateOrEpoch(text, now) == IF DateParses(text) THEN ParseDate(text) ELSE 0
DateOrNow(text, now) == IF DateParses(text) THEN ParseDate(text) ELSE now

\* The columns of a row, in the order of the struct (CsvItem / CsvMoney).
ColId == 1
ColDate == 2
ColCost == 3
ColOpt == 4
NCols == 4

\* The header row: the names of the columns.
HeaderRow == <<<<"i", "d">>, <<"d", "a", "t", "e">>, <<"c", "o", "s", "t">>,
               <<"o", "p", "t">>>>

\* From<&ItemRecord> for CsvItem (lines 124-143) / From<&MoneyRecord> for
\* CsvMoney (lines 173-185), serialized as one row.
CsvFrom(r) ==
    <<FormatNat(r.id), FormatDate(r.date), FormatNat(r.cost),
      IF r.opt = <<>> THEN <<>> ELSE FormatNat(r.opt[1])>>

\* deserialize::<CsvItem>() of one row: Err when a column is missing or the
\* text of id, cost or the optional field is not a value of its type. The
\* date is a String at this point and is not looked at.
RowDecodes(row) ==
    /\ Len(row) = NCols
    /\ IsNat(row[ColId])
    /\ IsNat(row[ColCost])
    /\ row[ColOpt] = <<>> \/ IsNat(row[ColOpt])

\* CsvItem::into_record / CsvMoney::into_record of a row that decoded.
into_record(row, now) ==
    [id   |-> ParseNat(row[ColId]),
     date |-> DateOrNow(row[ColDate], now),
     cost |-> ParseNat(row[ColCost]),
     opt  |-> IF row[ColOpt] = <<>> THEN <<>> ELSE <<ParseNat(row[ColOpt])>>]

\* WriterBuilder::has_headers(true): the header row is written with the first
\* record, none if there is no record.
\* (Faulty variant: has_headers(false).)
WithoutHeader(rows) == rows
WithHeader(rows) == IF Len(rows) = 0 THEN <<>> ELSE <<HeaderRow>> \o rows

\* write_items / write_money, lines 37-41: the lines written for collection c.
Serialized(c) == WithHeader([i \in 1..Len(c) |-> CsvFrom(c[i])])

\* The loop of read_items, lines 17-21, over the data rows: `result?` returns
\* the error of the first row that does not decode, and the vector is dropped.
\* (Faulty variant: the rows before the first bad row are returned.)
DecodedUntilBad(rows, now) ==
    LET bad == {i \in 1..Len(rows) : ~RowDecodes(rows[i])}
        n   == IF bad = {} THEN Len(rows)
               ELSE (CHOOSE i \in bad : \A j \in bad : i <= j) - 1
    IN  Ok([i \in 1..n |-> into_record(rows[i], now)])
DecodedRows(rows, now) ==
    IF \E i \in 1..Len(rows) : ~RowDecodes(rows[i]) THEN Err
    ELSE Ok([i \in 1..Len(rows) |-> into_record(rows[i], now)])

\* ReaderBuilder::new() (has_headers = true): the first line is taken as the
\* header and the fields of each further row are matched to the struct by the
\* header's names, so that rows under a first line that is not the header
\* fail to decode (missing field).
Deserialized(lines, now) ==
    IF Len(lines) <= 1 THEN Ok(<<>>)
    ELSE IF lines[1] # HeaderRow THEN Err
    ELSE DecodedRows(SubSeq(lines, 2, Len(lines)), now)

\* read_items / read_money (lines 10-24, 46-60) called at time now on file f.
read_items(f, now) == IF Missing(f) THEN Ok(<<>>) ELSE Deserialized(f.lines, now)

(* ---- SpecLoad: one process saving and loading collections ---- *)

\* The records saved: with and without the optional field, and with a
\* timestamp at a full minute or (as Local::now() gives it) within a minute.
RecordPool ==
    {[id |-> 1, date |-> 60, cost |-> 5,  opt |-> <<>>],
     [id |-> 2, date |-> 97, cost |-> 12, opt |-> <<0>>]}

\* Sequences of at most n elements of S.
SeqsUpTo(S, n) == UNION {[1..k -> S] : k \in 0..n}

Collections == SeqsUpTo(RecordPool, MaxRecords)

\* The data rows of the initial file: rows of records, a row whose date is
\* not in the format, rows whose cost or optional field is not a number, and
\* a row that lacks its last column.
RowPool ==
    {CsvFrom(r) : r \in RecordPool}
    \cup {<<<<"4">>, <<"1", "/", "2">>, <<"8">>, <<>>>>,
          <<<<"6">>, <<"0", "1">>, <<"x">>, <<>>>>,
          <<<<"7">>, <<"0", "1">>, <<"2">>, <<"-">>>>,
          <<<<"8">>, <<"0", "1">>, <<"3">>>>}

LoadInit ==
    /\ file \in {Absent, Content(<<>>)}
                \cup {Content(<<HeaderRow>> \o rows) : rows \in SeqsUpTo(RowPool, MaxRows)}
    /\ shared = {}
    /\ excl = NoProc
    /\ pc = [p \in Procs |-> "start"]
    /\ items = [p \in Procs |-> <<>>]
    /\ got = [p \in Procs |-> <<>>]
    /\ woff = [p \in Procs |-> 0]
    /\ passed = {}
    /\ lockCount = 0
    /\ readAt = [p \in Procs |-> 0]
    /\ lockAt = [p \in Procs |-> 0]
    /\ ioFailed = FALSE
    /\ cfg = <<>>
    /\ dir = <<>>
    /\ clock \in {130, 165}
    /\ mtick = 0
    /\ listing = <<>>
    /\ last = [op |-> "none", saved |-> Err]
    /\ log = <<>>
    /\ source = <<>>
    /\ dirExists = FALSE
    /\ faults = {}
    /\ job = <<>>

\* read_items(path) / read_money(path) as one call: shared lock, decode of
\* every row, unlock. History: last.pre is the file as the call found it,
\* last.saved the argument of the write_items that produced the file, if one
\* did.
ReadItems ==
    /\ last' = [op |-> "read", pre |-> file, ret |-> read_items(file, clock),
                saved |-> last.saved]
    /\ UNCHANGED <<storeVars, cfg, dir, clock, mtick, listing, log,
                   source, dirExists, faults, job>>

\* write_items(path, c) / write_money(path, c) as one call that returns Ok:
\* create, exclusive lock, set_len(0), header and rows, flush, unlock.
WriteItems(c) ==
    /\ file' = Content(Serialized(c))
    /\ last' = [op |-> "write", arg |-> c, ret |-> Ok(<<>>), saved |-> Ok(c)]
    /\ UNCHANGED <<shared, excl, pc, items, got, woff, passed, lockCount,
                   readAt, lockAt, ioFailed, cfg, dir, clock, mtick, listing, log,
                   source, dirExists, faults, job>>

\* write_items(path, c) returning an error from set_len, serialize or flush:
\* the file is what was on disk when the error came, k lines of the new
\* content after the truncation or (set_len failed) the old content.
WriteItemsFails(c) ==
    /\ \/ \E k \in 0..Len(Serialized(c)) : file' = Content(Take(Serialized(c), k))
       \/ file' = Content(file.lines)
    /\ ioFailed' = TRUE
    /\ last' = [op |-> "write", arg |-> c, ret |-> Err, saved |-> Err]
    /\ UNCHANGED <<shared, excl, pc, items, got, woff, passed, lockCount,
                   readAt, lockAt, cfg, dir, clock, mtick, listing, log,
                   source, dirExists, faults, job>>

\* read_items(path) whose `file.lock_shared()?` (line 15) returns an error:
\* the path was opened for reading (line 14) and is closed again.
ReadItemsLockFails ==
    /\ file.exists
    /\ last' = [op |-> "read_lock_failed", pre |-> file, ret |-> Err,
                saved |-> last.saved]
    /\ UNCHANGED <<storeVars, cfg, dir, clock, mtick, listing, log,
                   source, dirExists, faults, job>>

\* write_items(path, c) whose `file.lock_exclusive()?` (line 35) returns an
\* error: lines 30-34 have opened the path with create(true) before, so a
\* missing file has been created, empty; set_len (line 36) is not reached.
WriteItemsLockFails ==
    /\ file' = Content(file.lines)
    /\ last' = [op |-> "write_lock_failed", pre |-> file, ret |-> Err,
                saved |-> last.saved]
    /\ UNCHANGED <<shared, excl, pc, items, got, woff, passed, lockCount,
                   readAt, lockAt, ioFailed, cfg, dir, clock, mtick, listing, log,
                   source, dirExists, faults, job>>

Saved == \E c \in Collections : WriteItems(c)
SaveFailed == \E c \in Collections : WriteItemsFails(c)

LoadNext ==
    \/ ReadItems
    \/ Saved
    \/ SaveFailed
    \/ ReadItemsLockFails
    \/ WriteItemsLockFails

(* ---- SpecColocated: the backup directory is the data directory ---- *)

\* paths.backup_dir is the directory of items.csv and money.csv, which both
\* exist; no file system call fails.
ColocatedInit ==
    /\ StoreInit
    /\ file = Absent
    /\ \E kr \in 0..MaxKeep, kh \in 0..MaxKeep :
          cfg = [items_csv |-> items_csv, money_csv |-> money_csv,
                 backup_dir |-> DataDir,
                 keep_recent |-> kr, keep_historical |-> kh]
    /\ source = [s \in Sources(cfg) |-> Content(<<0>>)]
    /\ dir = Copied(Copied(<<>>, cfg.money_csv, 1, <<0>>), cfg.items_csv, 2, <<0>>)
    /\ clock = 0
    /\ mtick = 2
    /\ listing = <<>>
    /\ last = [op |-> "none"]
    /\ log = <<>>
    /\ dirExists = TRUE
    /\ faults = {}
    /\ job = <<>>

ColocatedBackup == Len(log) < MaxSharedCalls /\ BackupItems

ColocatedNext == SaveItems \/ ColocatedBackup

(* ---- SpecConcurrent: processes adding a record and backing up ---- *)

\* The processes that run a command: all but one.
Callers == 1..(NProcs - 1)

\* The create_backup call of a process: the name of its copy, the candidates
\* its first read_dir found, and its keep_paths.
NoJob == [dest |-> <<>>, listed |-> {}, keep |-> {}]

\* handle_items, ItemSub::Add, lines 143-148: write_items has returned and
\* create_backup is called. create_backup, lines 13-24: the source exists,
\* create_dir_all, the name from Local::now() (the second of the previous
\* copy or the next one), and fs::copy, which takes no lock and reads what
\* the record file holds at that moment.
BackupCopy(p) ==
    /\ pc[p] = "done"
    /\ lockAt[p] > 0
    /\ ~Missing(file)
    /\ \E dt \in 0..1 :
          LET dest == DestName(file_stem(cfg.items_csv), clock + dt,
                               extension(cfg.items_csv), TsWidth)
          IN  /\ clock' = clock + dt
              /\ dir' = Copied(dir, dest, mtick + 1, file.lines)
              /\ job' = [job EXCEPT ![p] = [NoJob EXCEPT !.dest = dest]]
    /\ mtick' = mtick + 1
    /\ dirExists' = TRUE
    /\ pc' = [pc EXCEPT ![p] = "b_list"]
    /\ UNCHANGED <<cfg, listing, last, log, source, faults, storeRest>>

\* enforce_retention, lines 30-56: the first read_dir, the sort, the
\* threshold and keep_paths.
BackupList(p) ==
    /\ pc[p] = "b_list"
    /\ LET paths == Candidates(dir, SetToSeq(DOMAIN dir), file_stem(cfg.items_csv))
       IN  IF WithinPolicy(Len(paths), cfg.keep_recent, cfg.keep_historical)
             THEN /\ job' = [job EXCEPT ![p].listed = Range(paths)]
                  /\ pc' = [pc EXCEPT ![p] = "b_done"]
             ELSE /\ job' = [job EXCEPT ![p].listed = Range(paths),
                                        ![p].keep = KeepPaths(paths, cfg.keep_recent,
                                                              cfg.keep_historical)]
                  /\ pc' = [pc EXCEPT ![p] = "b_prune"]
    /\ UNCHANGED <<cfg, dir, clock, mtick, listing, last, log, source, dirExists,
                   faults, storeRest>>

\* enforce_retention, lines 58-69: the second read_dir and the deletions,
\* then Ok(Some(dest)), line 26.
BackupPrune(p) ==
    /\ pc[p] = "b_prune"
    /\ LET gone == Removed(dir, file_stem(cfg.items_csv), job[p].keep)
       IN  dir' = [n \in DOMAIN dir \ gone |-> dir[n]]
    /\ pc' = [pc EXCEPT ![p] = "b_done"]
    /\ UNCHANGED <<cfg, clock, mtick, listing, last, log, source, dirExists,
                   faults, job, storeRest>>

\* The record file is missing or holds the initial collection; the backup
\* directory holds earlier backups of it.
ConcurrentInit ==
    /\ StoreInit
    /\ \E kr \in 0..MaxSnapshotKeep, kh \in 0..MaxSnapshotKeep :
          cfg = [items_csv |-> items_csv, money_csv |-> money_csv,
                 backup_dir |-> BackupsDir,
                 keep_recent |-> kr, keep_historical |-> kh]
    /\ \E old \in 0..MaxOld :
          /\ dir = OldBackups(cfg.items_csv, old)
          /\ dirExists = (old > 0)
          /\ clock = old
          /\ mtick = old
    /\ listing = <<>>
    /\ last = [op |-> "none"]
    /\ log = <<>>
    /\ source = <<>>
    /\ faults = {}
    /\ job = [p \in Procs |-> NoJob]

ConcurrentNext ==
    \E p \in Callers :
        \/ ReadExists(p)
        \/ LockShared(p)
        \/ ReadRows(p)
        \/ ReadUnlock(p)
        \/ List(p)
        \/ Add(p)
        \/ WriteOpen(p)
        \/ LockExclusive(p)
        \/ SetLen(p)
        \/ Serialize(p)
        \/ WriteUnlock(p)
        \/ BackupCopy(p)
        \/ BackupList(p)
        \/ BackupPrune(p)

(* ---- SpecTies: enforce_retention on equal modification times ---- *)

\* fs::metadata(p).and_then(|m| m.modified()).ok() of a file whose metadata
\* cannot be read is None, which sorts before every Some(time).
Unreadable == 0

\* The drawn directory: backup t of the stem has modification time stamps[t].
TiedDir(stamps) ==
    [x \in {DrawnName(t) : t \in 1..Len(stamps)} |->
        [mtime |-> stamps[CHOOSE t \in 1..Len(stamps) : DrawnName(t) = x],
         isFile |-> TRUE, bytes |-> <<>>]]

TiesInit ==
    /\ StoreInit
    /\ file = Absent
    /\ \E kr \in 0..MaxKeep, kh \in 0..MaxKeep :
          cfg = [items_csv |-> items_csv, money_csv |-> money_csv,
                 keep_recent |-> kr, keep_historical |-> kh]
    /\ \E n \in 0..MaxTied :
          \E stamps \in [1..n -> {Unreadable} \cup 1..MaxStamp] :
             /\ dir = TiedDir(stamps)
             /\ listing \in Orders([t \in 1..n |-> DrawnName(t)])
    /\ clock = 0
    /\ mtick = 0
    /\ last = [op |-> "none"]
    /\ log = <<>>
    /\ source = <<>>
    /\ dirExists = TRUE
    /\ faults = {}
    /\ job = <<>>

(* ---- SpecFault: every step of read_items and write_items may fail ---- *)

\* read_items returns an error: File::open (line 14) or lock_shared (15)
\* fails, a row cannot be read or decoded (`result?`, 19), or unlock (22)
\* fails. `?` leaves the function and the File is dropped.
ReadFail(p) ==
    /\ pc[p] \in {"r_lock", "r_read", "r_unlock"}
    /\ shared' = SharedDropped(p)
    /\ pc' = [pc EXCEPT ![p] = "failed"]
    /\ UNCHANGED <<file, excl, items, got, woff, passed, lockCount, readAt, lockAt, ioFailed, backupVars>>

\* write_items returns an error outside lines 36-41: create_dir_all or open
\* (27-34) fails and no file is created, lock_exclusive (35) fails after the
\* open, or unlock (42) fails after the flush.
WriteAbort(p) ==
    /\ pc[p] \in {"w_open", "w_lock", "w_unlock"}
    /\ excl' = ExclusiveDropped(p)
    /\ ioFailed' = TRUE
    /\ pc' = [pc EXCEPT ![p] = "failed"]
    /\ UNCHANGED <<file, shared, items, got, woff, passed, lockCount, readAt, lockAt, backupVars>>

\* The record file is missing, or holds the initial collection, or holds a
\* row that does not decode.
FaultInit ==
    /\ file \in {Absent, Content(Encode(InitialCollection)),
                 Content(<<Header, Malformed>>)}
    /\ StoreIdle
    /\ BackupIdle

FaultNext ==
    \E p \in Callers :
        \/ ReadExists(p)
        \/ LockShared(p)
        \/ ReadRows(p)
        \/ ReadUnlock(p)
        \/ List(p)
        \/ Add(p)
        \/ WriteOpen(p)
        \/ LockExclusive(p)
        \/ SetLen(p)
        \/ Serialize(p)
        \/ WriteUnlock(p)
        \/ WriteFail(p)
        \/ ReadFail(p)
        \/ WriteAbort(p)

(* ---- SpecStream: commands keep arriving ---- *)

\* A process whose read-only command has finished runs the next one: the
\* stream of readers goes on for ever.
Again(p) ==
    /\ pc[p] = "done"
    /\ lockAt[p] = 0
    /\ pc' = [pc EXCEPT ![p] = "start"]
    /\ items' = [items EXCEPT ![p] = <<>>]
    /\ got' = [got EXCEPT ![p] = <<>>]
    /\ readAt' = [readAt EXCEPT ![p] = 0]
    /\ UNCHANGED <<file, shared, excl, woff, passed, lockCount, lockAt, ioFailed, backupVars>>

NextCommand == \E p \in Procs : Again(p)

StreamNext == StoreNext \/ NextCommand

\* The steps of process p that do not wait: the scheduler runs every
\* process, so a process that can take such a step takes it.
Running(p) ==
    \/ ReadExists(p)
    \/ ReadRows(p)
    \/ ReadUnlock(p)
    \/ List(p)
    \/ Add(p)
    \/ WriteOpen(p)
    \/ SetLen(p)
    \/ Serialize(p)
    \/ WriteUnlock(p)

\* flock wakes a waiter when the lock it waits for can be granted: a blocked
\* lock_shared() / lock_exclusive() that can be granted again and again is
\* granted. No fairness is assumed of the arrival of further commands.
StreamFairness ==
    \A p \in Procs :
        /\ WF_vars(Running(p))
        /\ SF_vars(LockShared(p))
        /\ SF_vars(LockExclusive(p))

(* ---- SpecCallers: the commands of the CLI and the actions of the UI ---- *)

\* The UI process, whose self.items (ui_app.rs lines 63-64) is items[Ui]; a
\* CLI command is a process of its own that loads the file when it starts.
Ui == 1

\* A record is an identifier and its other fields: record r has the
\* identifier r \div Versions and the field content r % Versions.
Versions == 2
IdOf(r) == r \div Versions
Ids(c) == {IdOf(c[i]) : i \in 1..Len(c)}
Record(id, v) == id * Versions + v

\* The commands of a run, and the identifiers Uuid::new_v4() hands out: a
\* random 122-bit value, taken to differ from every identifier in use.
MaxCommands == 2
FirstNewId == 3
new_v4 == FirstNewId + Len(log)

\* The files offered to import: one record, two records of different
\* identifiers, two rows of the same identifier, a malformed row, no file.
ImportFiles ==
    {Content(Encode(<<Record(1, 0)>>)),
     Content(Encode(<<Record(1, 0), Record(2, 0)>>)),
     Content(Encode(<<Record(2, 0), Record(2, 1)>>)),
     Content(<<Header, Malformed>>),
     Absent}

\* items.retain(|i| i.id != id)
Retain(c, id) == SelectSeq(c, LAMBDA r : IdOf(r) # id)

\* ModalMode::Edit(id), ui_app.rs lines 321-328: the first record of the
\* identifier is replaced by the form's record, which is given that
\* identifier.
Position(c, id) ==
    IF id \in Ids(c)
      THEN CHOOSE i \in 1..Len(c) :
              IdOf(c[i]) = id /\ \A j \in 1..(i - 1) : IdOf(c[j]) # id
      ELSE 0
Edited(c, id, v) ==
    IF Position(c, id) = 0 THEN c
    ELSE [c EXCEPT ![Position(c, id)] = Record(id, v)]

\* read_items(path) as a function of the file: Ok(rows) or Err.
read_items_of(f) ==
    IF Missing(f) THEN Ok(<<>>)
    ELSE IF RowsDecode(f.lines) THEN Ok(Decode(f.lines))
    ELSE Err

\* write_items(path, c) on file f: it succeeds and the file holds c, or it
\* returns an error: at the open (f as it was), at the lock (f created), or
\* after the truncation with the first rows of c written.
write_items(f, c) ==
    {[ok |-> TRUE, file |-> Content(Encode(c))]}
    \cup {[ok |-> FALSE, file |-> x] :
            x \in {f, Content(f.lines)}
                  \cup {Content(Take(Encode(c), k)) :
                          k \in 0..Max(Len(Encode(c)) - 1, 0)}}

\* create_backup(items_csv, backup_dir, policy) on record file f, one second
\* after the previous one; no call of the file system fails.
create_backup(f) ==
    IF SourceMissing(f)
      THEN UNCHANGED <<dir, clock, mtick, dirExists>>
      ELSE LET stem   == file_stem(cfg.items_csv)
               dest   == DestName(stem, clock + 1, extension(cfg.items_csv), TsWidth)
               copied == Copied(dir, dest, mtick + 1, f.lines)
           IN  /\ dir' = enforce_retention(copied, SetToSeq(DOMAIN copied), stem,
                                           cfg.keep_recent, cfg.keep_historical,
                                           NoFault).dir
               /\ clock' = clock + 1
               /\ mtick' = mtick + 1
               /\ dirExists' = TRUE
NoBackup == UNCHANGED <<dir, clock, mtick, dirExists>>

\* History of a command: the calls it made on items.csv in their order,
\* whether its write_items returned Ok (FALSE if it made none), and what the
\* user is told: a message, "error" for a command that ends with an error,
\* "modal closed" for the dialog that closes without a message.
Command(op, calls, saveOk, reported) ==
    /\ Len(log) < MaxCommands
    /\ last' = [op |-> op, calls |-> calls, saveOk |-> saveOk, reported |-> reported]
    /\ log' = Append(log, op)
    /\ UNCHANGED <<cfg, listing, source, faults, job, shared, excl, pc, got,
                   woff, passed, lockCount, readAt, lockAt, ioFailed>>

CallersInit ==
    /\ file \in {Absent, Content(Encode(<<Record(0, 0)>>))}
    /\ shared = {}
    /\ excl = NoProc
    /\ pc = [p \in Procs |-> "start"]
    /\ items = [p \in Procs |-> IF p = Ui THEN Decode(file.lines) ELSE <<>>]
    /\ got = [p \in Procs |-> <<>>]
    /\ woff = [p \in Procs |-> 0]
    /\ passed = {Decode(file.lines)}
    /\ lockCount = 0
    /\ readAt = [p \in Procs |-> 0]
    /\ lockAt = [p \in Procs |-> 0]
    /\ ioFailed = FALSE
    /\ \E k \in {1, 3} :
          cfg = [items_csv |-> items_csv, money_csv |-> money_csv,
                 backup_dir |-> BackupsDir,
                 keep_recent |-> k, keep_historical |-> k]
    /\ dir = <<>>
    /\ clock = 0
    /\ mtick = 0
    /\ listing = <<>>
    /\ last = [op |-> "none", calls |-> <<>>, saveOk |-> FALSE, reported |-> "none"]
    /\ log = <<>>
    /\ source = <<>>
    /\ dirExists = FALSE
    /\ faults = {}
    /\ job = <<>>

\* ui_app.rs lines 315-341, the Save button of the item dialog in mode Add
\* or Edit(id): the form does not parse ("Save failed"), or the collection
\* is changed, written and backed up, the results of both calls are dropped
\* and the dialog closes.
UiSaveItem ==
    \E formOk \in BOOLEAN, v \in 0..(Versions - 1), id \in Ids(items[Ui]) \cup {new_v4} :
        IF ~formOk
          THEN /\ Command("ui_save", <<>>, FALSE, "Save failed")
               /\ NoBackup
               /\ UNCHANGED <<file, items>>
          ELSE LET c == IF id = new_v4 THEN Append(items[Ui], Record(new_v4, v))
                        ELSE Edited(items[Ui], id, v)
               IN  \E w \in write_items(file, c) :
                      /\ items' = [items EXCEPT ![Ui] = c]
                      /\ file' = w.file
                      /\ create_backup(w.file)
                      /\ Command("ui_save", <<"write", "backup">>, w.ok, "modal closed")

\* ui_app.rs lines 143-158, the Delete Item button with a selected item.
UiDeleteItem ==
    \E id \in Ids(items[Ui]) :
        LET c == Retain(items[Ui], id)
        IN  \E w \in write_items(file, c) :
               /\ Len(c) # Len(items[Ui])
               /\ items' = [items EXCEPT ![Ui] = c]
               /\ create_backup(file)
               /\ file' = w.file
               /\ Command("ui_delete", <<"backup", "write">>, w.ok, "Item deleted")

\* ui_app.rs lines 159-175, the Import Items CSV button with a picked file.
UiImportItems ==
    \E f \in ImportFiles :
        /\ create_backup(file)
        /\ IF read_items_of(f).ok
             THEN \E w \in write_items(file, read_items_of(f).val) :
                     /\ items' = [items EXCEPT ![Ui] = read_items_of(f).val]
                     /\ file' = w.file
                     /\ Command("ui_import", <<"backup", "read", "write">>, w.ok,
                                "Imported items")
             ELSE /\ UNCHANGED <<file, items>>
                  /\ Command("ui_import", <<"backup", "read">>, FALSE, "Import failed")

\* cli.rs lines 109 and 111-150, `items add`.
CliAddItem ==
    \E v \in 0..(Versions - 1) :
        \E w \in write_items(file, Append(read_items_of(file).val, Record(new_v4, v))) :
            /\ file' = w.file
            /\ UNCHANGED items
            /\ IF w.ok
                 THEN /\ create_backup(w.file)
                      /\ Command("cli_add", <<"read", "write", "backup">>, TRUE,
                                 "Item added.")
                 ELSE /\ NoBackup
                      /\ Command("cli_add", <<"read", "write">>, FALSE, "error")

\* cli.rs lines 109 and 174-182, `items delete <id>`.
CliDeleteItem ==
    \E id \in Ids(read_items_of(file).val) \cup {new_v4} :
        LET c == Retain(read_items_of(file).val, id)
        IN  /\ NoBackup
            /\ UNCHANGED items
            /\ IF Len(c) = Len(read_items_of(file).val)
                 THEN /\ UNCHANGED file
                      /\ Command("cli_delete", <<"read">>, FALSE, "error")
                 ELSE \E w \in write_items(file, c) :
                         /\ file' = w.file
                         /\ Command("cli_delete", <<"read", "write">>, w.ok,
                                    IF w.ok THEN "Item deleted." ELSE "error")

\* cli.rs lines 109 and 183-188, `items import <path>`.
CliImportItems ==
    \E f \in ImportFiles :
        /\ NoBackup
        /\ UNCHANGED items
        /\ IF read_items_of(f).ok
             THEN \E w \in write_items(file, read_items_of(f).val) :
                     /\ file' = w.file
                     /\ Command("cli_import", <<"read", "read", "write">>, w.ok,
                                IF w.ok THEN "Imported items." ELSE "error")
             ELSE /\ UNCHANGED file
                  /\ Command("cli_import", <<"read", "read">>, FALSE, "error")

CallersNext ==
    \/ UiSaveItem
    \/ UiDeleteItem
    \/ UiImportItems
    \/ CliAddItem
    \/ CliDeleteItem
    \/ CliImportItems

-----------------------------------------------------------------------------
(* Specifications *)

Init == StoreInit /\ BackupIdle
Next == StoreNext
Spec == Init /\ [][Next]_vars

SpecRetention == RetentionInit /\ [][RetentionNext]_vars

SpecSequence == BackupInit /\ [][SequenceNext]_vars

SpecBackup == BackupInit /\ [][BackupNext]_vars

SpecLoad == LoadInit /\ [][LoadNext]_vars

SpecSnapshot == SnapshotInit /\ [][SnapshotNext]_vars

SpecFault == FaultInit /\ [][FaultNext]_vars

SpecColocated == ColocatedInit /\ [][ColocatedNext]_vars

SpecConcurrent == ConcurrentInit /\ [][ConcurrentNext]_vars

SpecTies == TiesInit /\ [][RetentionNext]_vars

SpecStream == Init /\ [][StreamNext]_vars /\ StreamFairness

SpecCallers == CallersInit /\ [][CallersNext]_vars

-----------------------------------------------------------------------------
(* Claims about the record store, checked under Spec *)

\* p is between acquiring the exclusive lock and releasing it.
InWriteSection(p) == pc[p] \in {"w_trunc", "w_write", "w_unlock"}

\* read_items has returned to p.
HasRead(p) == pc[p] \in {"loaded", "w_open", "w_lock", "w_trunc", "w_write",
                         "w_unlock", "done", "failed"}

AllDone == \A p \in Procs : pc[p] = "done"

\* The process whose write_items acquired the exclusive lock last.
LastLocker == CHOOSE p \in Procs : lockAt[p] = lockCount

\* C1: write exclusivity. At every moment at most one process is between
\* acquiring the exclusive lock and releasing it, and that process is the
\* holder of the lock: the truncate-write-flush sections never overlap.
C1_WriteExclusivity ==
    /\ \A p, q \in Procs : InWriteSection(p) /\ InWriteSection(q) => p = q
    /\ \A p \in Procs : InWriteSection(p) => excl = p /\ shared = {}

\* A writer is in the middle of its rows while another waits for the lock.
C1_Witness ==
    \E p, q \in Procs :
        /\ p # q
        /\ pc[p] = "w_write" /\ woff[p] >= 1 /\ woff[p] < Len(Encode(items[p]))
        /\ pc[q] = "w_lock"

\* C2: reader isolation. Without I/O errors, what read_items returns is the
\* initial collection of the file or the complete argument of some
\* write_items, and no reader holds the shared lock while a writer holds the
\* exclusive lock.
C2_ReaderIsolation ==
    /\ excl # NoProc => shared = {}
    /\ ~ioFailed =>
          /\ \A p \in Procs : HasRead(p) => got[p] \in passed
          /\ \A p \in Procs : pc[p] = "r_unlock" => items[p] \in passed

\* A reader has read, under its shared lock, the collection written by an
\* earlier write_items while another writer is waiting for the lock.
C2_Witness ==
    \E p, q \in Procs :
        /\ pc[p] = "r_unlock" /\ p \in shared
        /\ pc[q] = "w_lock"
        /\ readAt[p] >= 1
        /\ items[p] # <<>> /\ items[p][Len(items[p])] # 0
        /\ ~ioFailed

\* C3: last writer wins. No lock is held between a process's read_items and
\* its write_items; once every command has finished (without I/O error) the
\* file holds exactly the collection passed by the process that acquired the
\* exclusive lock last; and the record of any other process whose write came
\* after that process's read is not in the file.
C3_LastWriterWins ==
    /\ \A p \in Procs :
          pc[p] \in {"loaded", "w_open", "w_lock"} => p \notin shared /\ excl # p
    /\ (AllDone /\ ~ioFailed /\ lockCount > 0) =>
          /\ file.lines = Encode(items[LastLocker])
          /\ Decode(file.lines) = Append(got[LastLocker], LastLocker)
          /\ \A q \in Procs \ {LastLocker} :
                lockAt[q] > readAt[LastLocker] => q \notin Range(Decode(file.lines))

\* A lost update: all commands are done, q wrote its record after the last
\* writer had read, and q's record is gone from the file.
C3_Witness ==
    /\ AllDone /\ ~ioFailed /\ lockCount > 0
    /\ \E q \in Procs \ {LastLocker} :
          /\ lockAt[q] > readAt[LastLocker]
          /\ lockAt[q] < lockCount
          /\ q \notin Range(Decode(file.lines))

\* C11: empty-file semantics. A read_items / read_money that finds no file at
\* the path returns Ok with the empty collection, not an error, and the step
\* creates no file and takes no lock.
C11_EmptyFileSemantics ==
    [][\A p \in Procs :
          (pc[p] = "start" /\ ~file.exists /\ pc'[p] # pc[p]) =>
              /\ pc'[p] = "loaded"
              /\ got'[p] = <<>>
              /\ file' = file
              /\ shared' = shared /\ excl' = excl
              /\ ioFailed' = ioFailed]_vars

\* Two processes have read the missing file: both got the empty collection,
\* no lock is held and the file is still missing.
C11_Witness ==
    \E p, q \in Procs :
        /\ p # q
        /\ pc[p] = "loaded" /\ pc[q] = "loaded"
        /\ got[p] = <<>> /\ got[q] = <<>>
        /\ ~file.exists
        /\ shared = {} /\ excl = NoProc

-----------------------------------------------------------------------------
(* Claims about enforce_retention, checked under SpecRetention *)

\* The directory entries whose name starts with the stem.
Matching(d, stem) == {n \in DOMAIN d : StartsWith(n, stem)}

Pruned == last.op = "enforce_retention"

\* What the pass found: the stem's entries, and for each the number of
\* entries of the stem that are newer (0 for the newest).
StemEntries == Matching(last.pre, last.stem)
RankOf(n) ==
    Cardinality({m \in StemEntries : last.pre[m].mtime > last.pre[n].mtime})

PolicyTotal == cfg.keep_recent + cfg.keep_historical
RestLen == Cardinality(StemEntries) - cfg.keep_recent

\* n is rest[0], rest[step], rest[2*step], ..., one of the first
\* keep_historical of them, with step = max(1, floor(len(rest) / keep_historical)).
Sampled(n) ==
    /\ cfg.keep_historical > 0
    /\ LET step == Max(1, RestLen \div cfg.keep_historical)
           r    == RankOf(n) - cfg.keep_recent
       IN  r >= 0 /\ r % step = 0 /\ r \div step < cfg.keep_historical

Survives(n) == RankOf(n) < cfg.keep_recent \/ Sampled(n)

DeletedByPass == DOMAIN last.pre \ DOMAIN dir

\* C4: survivor set. When more than keep_recent + keep_historical entries
\* start with the stem, the pass keeps the keep_recent newest entries and the
\* stride samples rest[0], rest[step], ... of the older ones, and deletes every
\* other file of the stem (a sub-directory is an entry but never deleted);
\* for a rest of 10 files and keep_historical = 3 what is left of rest is
\* rest[0], rest[3], rest[6].
C4_SurvivorSet ==
    (Pruned /\ Cardinality(StemEntries) > PolicyTotal) =>
        /\ \A n \in StemEntries : Survives(n) => n \in DOMAIN dir
        /\ \A n \in StemEntries :
              (~Survives(n) /\ last.pre[n].isFile) => n \notin DOMAIN dir
        /\ (/\ RestLen = 10 /\ cfg.keep_historical = 3
            /\ \A n \in StemEntries : last.pre[n].isFile) =>
              {RankOf(n) - cfg.keep_recent :
                  n \in {m \in StemEntries \cap DOMAIN dir :
                            RankOf(m) >= cfg.keep_recent}}
              = {0, 3, 6}

\* The pass ran on a rest of 10 regular files with keep_historical = 3 and
\* deleted the other 7.
C4_Witness ==
    /\ Pruned
    /\ RestLen = 10 /\ cfg.keep_historical = 3 /\ cfg.keep_recent = 1
    /\ \A n \in StemEntries : last.pre[n].isFile
    /\ Cardinality(DeletedByPass) = 7

\* C5: no-op threshold. With at most keep_recent + keep_historical entries of
\* the stem the pass deletes nothing: the directory is as it was.
C5_NoOpThreshold ==
    (Pruned /\ Cardinality(StemEntries) <= PolicyTotal) => dir = last.pre

\* The pass ran on exactly keep_recent + keep_historical entries of the stem,
\* beside a backup of another record file.
C5_Witness ==
    /\ Pruned
    /\ Cardinality(StemEntries) = PolicyTotal
    /\ cfg.keep_recent >= 1 /\ cfg.keep_historical >= 1
    /\ DOMAIN last.pre # StemEntries
    /\ dir = last.pre

\* C6: retention boundary. With exactly keep_recent + keep_historical + 1
\* entries of the stem, all regular files, the pass deletes exactly one file
\* and keeps the keep_recent newest and keep_historical of the others; with
\* keep_recent = 3 and keep_historical = 3 (7 files) the six newest survive.
C6_RetentionBoundary ==
    (/\ Pruned
     /\ Cardinality(StemEntries) = PolicyTotal + 1
     /\ \A n \in StemEntries : last.pre[n].isFile) =>
        /\ Cardinality(DeletedByPass) = 1
        /\ DeletedByPass \subseteq StemEntries
        /\ \A n \in StemEntries : RankOf(n) < cfg.keep_recent => n \in DOMAIN dir
        /\ Cardinality({n \in StemEntries \cap DOMAIN dir :
                            RankOf(n) >= cfg.keep_recent}) = cfg.keep_historical
        /\ (cfg.keep_recent = 3 /\ cfg.keep_historical = 3) =>
              StemEntries \cap DOMAIN dir = {n \in StemEntries : RankOf(n) < 6}

\* The pass ran on 7 regular files with keep_recent = 3, keep_historical = 3.
C6_Witness ==
    /\ Pruned
    /\ cfg.keep_recent = 3 /\ cfg.keep_historical = 3
    /\ Cardinality(StemEntries) = 7
    /\ \A n \in StemEntries : last.pre[n].isFile
    /\ Cardinality(DeletedByPass) = 1

-----------------------------------------------------------------------------
(* Claims about create_backup, checked under SpecSequence and SpecBackup *)

\* Every call so far was made in a second of its own.
DistinctStamps ==
    \A i, j \in 1..Len(log) : i # j => log[i][2] # log[j][2]

\* The backups created by the k latest calls.
NewestTaken(k) == {log[i][2] : i \in {j \in 1..Len(log) : j > Len(log) - k}}

EverTaken == {log[i][2] : i \in 1..Len(log)}

OwnBackups == Matching(dir, file_stem(cfg.items_csv))

\* C7 (SpecSequence): end-to-end snapshot sequence. From an empty directory,
\* after the n-th call for one source, the calls made at distinct time stamps,
\* exactly min(n, keep_recent + keep_historical) backups of the stem remain,
\* the min(n, keep_recent) most recent among them; with keep_recent = 2,
\* keep_historical = 1 and 7 calls, 3 remain and 4 are gone.
C7_SnapshotSequence ==
    DistinctStamps =>
        /\ Cardinality(OwnBackups) = Min(Len(log), PolicyTotal)
        /\ OwnBackups \subseteq EverTaken
        /\ NewestTaken(Min(Len(log), cfg.keep_recent)) \subseteq OwnBackups
        /\ (cfg.keep_recent = 2 /\ cfg.keep_historical = 1 /\ Len(log) = 7) =>
              /\ Cardinality(OwnBackups) = 3
              /\ Cardinality(EverTaken \ DOMAIN dir) = 4

\* Seven calls at distinct time stamps with keep_recent = 2, keep_historical = 1.
C7_Witness ==
    /\ DistinctStamps
    /\ cfg.keep_recent = 2 /\ cfg.keep_historical = 1
    /\ Len(log) = 7
    /\ Cardinality(DOMAIN dir) = 3

\* C8 (SpecSequence): historical spread. With keep_historical >= 1, once more
\* than keep_recent + keep_historical snapshots were taken, some retained
\* snapshot is not among the keep_recent + keep_historical newest ever taken.
C8_HistoricalSpread ==
    (/\ cfg.keep_historical >= 1
     /\ DistinctStamps
     /\ Len(log) > PolicyTotal) =>
        \E n \in OwnBackups : n \notin NewestTaken(PolicyTotal)

\* The stems of the call's source and of the other record file.
CalledStem == file_stem(last.src)
OtherStem  == file_stem(CHOOSE s \in Sources(cfg) : s # last.src)

Related(a, b) == StartsWith(a, b) \/ StartsWith(b, a)

\* The backups made for the other record file that were in the directory
\* when the last call began.
OtherBackups ==
    {log[i][2] : i \in {j \in 1..Len(log) : log[j][1] # last.src}}
        \cap DOMAIN last.pre

\* The pass of the last call took no backup of the other record file as a
\* candidate and left every one of them as it was.
OtherStemUntouched ==
    /\ OtherBackups \cap Matching(last.listed, CalledStem) = {}
    /\ \A n \in OtherBackups : n \in DOMAIN dir /\ dir[n] = last.pre[n]

\* C9 (SpecBackup): stem isolation for unrelated stems. When neither stem is a
\* prefix of the other, a create_backup for one record file neither counts nor
\* deletes a backup of the other.
C9_StemIsolation ==
    (last.op = "create_backup" /\ ~Related(CalledStem, OtherStem)) =>
        OtherStemUntouched

\* A call for one of two unrelated stems pruned a backup of its own while
\* backups of the other stem were in the directory.
C9_Witness ==
    /\ last.op = "create_backup"
    /\ ~Related(CalledStem, OtherStem)
    /\ OtherBackups # {}
    /\ DOMAIN last.listed \ DOMAIN dir # {}

\* C10 (SpecBackup): backup ownership by stem. For any two distinct stems,
\* one a prefix of the other included, a create_backup for one record file
\* neither counts nor deletes a backup of the other.
C10_BackupOwnership ==
    last.op = "create_backup" => OtherStemUntouched

-----------------------------------------------------------------------------
(* Claims about loading and saving records, checked under SpecLoad *)

Loaded == last.op = "read"

\* The data rows the last read_items found in the file.
RowsFound ==
    IF Len(last.pre.lines) <= 1 THEN <<>>
    ELSE SubSeq(last.pre.lines, 2, Len(last.pre.lines))

\* A row of which a field other than the timestamp cannot be decoded: a
\* column is missing, or the identifier, the number or the (non-empty)
\* optional field is not a number.
BadRow(row) ==
    \/ Len(row) < NCols
    \/ ~IsNat(row[ColId])
    \/ ~IsNat(row[ColCost])
    \/ (row[ColOpt] # <<>> /\ ~IsNat(row[ColOpt]))

\* C12: all-or-nothing load. If some row of the file has a non-timestamp
\* field that does not decode, read_items returns an error and none of the
\* rows decoded before it, the file is as it was and no lock is left.
C12_AllOrNothingLoad ==
    (/\ Loaded
     /\ \E i \in 1..Len(RowsFound) : BadRow(RowsFound[i])) =>
        /\ ~last.ret.ok
        /\ last.ret.val = <<>>
        /\ file = last.pre
        /\ shared = {} /\ excl = NoProc

\* The file read had a good row followed by a bad one.
C12_Witness ==
    /\ Loaded
    /\ Len(RowsFound) = 2
    /\ ~BadRow(RowsFound[1]) /\ BadRow(RowsFound[2])
    /\ ~last.ret.ok

\* Loaded from the file that a successful write_items produced.
LoadedSaved == Loaded /\ last.saved.ok

\* C13: record round trip. Reading back what a successful write_items wrote
\* gives records identical to the ones written in every field, identifier and
\* timestamp included.
C13_RecordRoundTrip ==
    LoadedSaved => last.ret = Ok(last.saved.val)

\* C14: order preservation. A read_items that follows a successful
\* write_items(c) returns as many records as c has, in the order of c (for the
\* empty c, none).
C14_OrderPreservation ==
    LoadedSaved =>
        /\ last.ret.ok
        /\ Len(last.ret.val) = Len(last.saved.val)
        /\ \A i \in 1..Len(last.saved.val) :
              last.ret.val[i].id = last.saved.val[i].id

\* Two records were written with the larger identifier first and read back.
C14_Witness ==
    /\ LoadedSaved
    /\ Len(last.saved.val) = 2
    /\ last.saved.val[1].id > last.saved.val[2].id
    /\ last.ret.ok
    /\ last.ret.val[1].id > last.ret.val[2].id

\* C15: file shape after write. After a successful write_items(c) the file
\* is the header row followed by one row per record of c, for every c, the
\* empty one included.
C15_FileShapeAfterWrite ==
    (last.op = "write" /\ last.ret.ok) =>
        /\ Len(file.lines) = Len(last.arg) + 1
        /\ file.lines[1] = HeaderRow
        /\ \A i \in 1..Len(last.arg) : file.lines[i + 1] = CsvFrom(last.arg[i])

\* C16: lenient timestamp read. When every row decodes in its non-timestamp
\* fields and the date of some row is not in the format, read_items succeeds
\* and returns one record per row, its fields as stored; the record of a row
\* whose date does not parse carries the time of the call, every other
\* record the stored date.
C16_LenientTimestampRead ==
    (/\ Loaded
     /\ \A i \in 1..Len(RowsFound) : ~BadRow(RowsFound[i])
     /\ \E i \in 1..Len(RowsFound) : ~DateParses(RowsFound[i][ColDate])) =>
        /\ last.ret.ok
        /\ Len(last.ret.val) = Len(RowsFound)
        /\ \A i \in 1..Len(RowsFound) :
              LET row == RowsFound[i]
                  r   == last.ret.val[i]
              IN  /\ FormatNat(r.id) = row[ColId]
                  /\ FormatNat(r.cost) = row[ColCost]
                  /\ (row[ColOpt] = <<>> => r.opt = <<>>)
                  /\ (row[ColOpt] # <<>> => r.opt = <<ParseNat(row[ColOpt])>>)
                  /\ (~DateParses(row[ColDate]) => r.date = clock)
                  /\ (DateParses(row[ColDate]) => FormatDate(r.date) = row[ColDate])

\* A file of a good row and a row with an unparsable date was loaded: two
\* records, the second dated now.
C16_Witness ==
    /\ Loaded
    /\ Len(RowsFound) = 2
    /\ DateParses(RowsFound[1][ColDate]) /\ ~DateParses(RowsFound[2][ColDate])
    /\ last.ret.ok
    /\ Len(last.ret.val) = 2
    /\ last.ret.val[2].date = clock
    /\ last.ret.val[1].date # clock

-----------------------------------------------------------------------------
(* Claims about create_backup on a failing file system, checked under
   SpecSnapshot *)

Called == last.op = "create_backup"

\* The stem's entries of directory d, and of such an entry the number of the
\* stem's entries that are newer.
RankIn(d, stem, n) ==
    Cardinality({m \in Matching(d, stem) : d[m].mtime > d[n].mtime})

\* The files of the stem that the policy excludes from directory d: with more
\* than keep_recent + keep_historical entries, the regular files that are
\* neither among the keep_recent newest nor a stride sample of the others.
ExcludedIn(d, stem) ==
    LET total   == Cardinality(Matching(d, stem))
        restLen == total - cfg.keep_recent
        step    == IF cfg.keep_historical = 0 THEN 1
                   ELSE Max(1, restLen \div cfg.keep_historical)
        kept(n) == LET r == RankIn(d, stem, n) - cfg.keep_recent
                   IN  \/ r < 0
                       \/ /\ cfg.keep_historical > 0
                          /\ r % step = 0
                          /\ r \div step < cfg.keep_historical
    IN  IF total <= PolicyTotal THEN {}
        ELSE {n \in Matching(d, stem) : d[n].isFile /\ ~kept(n)}

\* C17: backup skipped. create_backup for a source that does not exist
\* returns Ok(None), and nothing changes on disk: the backup directory is not
\* created, no file is copied, and nothing is pruned even if the directory
\* holds more backups than the policy allows.
C17_BackupSkipped ==
    (Called /\ ~last.found.exists) =>
        /\ last.ret = Ok(<<>>)
        /\ dir = last.pre
        /\ dirExists = last.hadDir
        /\ log[Len(log)][2] = <<>>

\* The call found no source and a directory holding more backups of the stem
\* than the policy keeps; they are all still there.
C17_Witness ==
    /\ Called /\ ~last.found.exists
    /\ Cardinality(Matching(last.pre, CalledStem)) > PolicyTotal
    /\ last.ret = Ok(<<>>)
    /\ dir = last.pre

\* The parts of the backup's name that the claim expects for each source.
ExpectedStem(src) ==
    IF src = items_csv THEN <<"i", "t", "e", "m", "s">>
    ELSE IF src = ledger THEN <<"l", "e", "d", "g", "e", "r">>
    ELSE <<"f", "i", "l", "e">>
ExpectedExt(src) ==
    IF src = ledger THEN <<"b", "a", "k">> ELSE <<"c", "s", "v">>

\* name is {stem}_{time stamp}.{ext} for the time t.
NamedFor(name, src, t) ==
    LET ls == Len(ExpectedStem(src))
        le == Len(ExpectedExt(src))
    IN  /\ Len(name) = ls + 1 + TsWidth + 1 + le
        /\ SubSeq(name, 1, ls) = ExpectedStem(src)
        /\ name[ls + 1] = "_"
        /\ IsNat(SubSeq(name, ls + 2, ls + 1 + TsWidth))
        /\ ParseNat(SubSeq(name, ls + 2, ls + 1 + TsWidth)) = t
        /\ name[ls + 2 + TsWidth] = "."
        /\ SubSeq(name, ls + 3 + TsWidth, Len(name)) = ExpectedExt(src)

\* C18: snapshot creation. create_backup for an existing source, when neither
\* create_dir_all nor the copy fails, leaves the backup directory existing
\* and has written in it a regular file named {stem}_{time stamp}.{ext} (stem
\* and extension of the source name, "file" and "bak" by default) that holds
\* the bytes the source had at the call; when the call returns Ok it returns
\* Some of that file's path.
C18_SnapshotCreation ==
    (/\ Called /\ last.found.exists
     /\ last.fault.step \notin {"create_dir_all", "copy"}) =>
        /\ dirExists
        /\ last.dest \in DOMAIN last.listed
        /\ NamedFor(last.dest, last.src, clock)
        /\ last.listed[last.dest].isFile
        /\ last.listed[last.dest].bytes = last.found.lines
        /\ last.ret.ok => last.ret.val = <<last.dest>>

\* A source without extension, saved after earlier backups were made, is
\* backed up into a directory that did not exist: a .bak file with the
\* source's current bytes.
C18_Witness ==
    /\ Called /\ last.found.exists
    /\ last.src = ledger
    /\ ~last.hadDir /\ dirExists
    /\ last.found.lines # <<0>>
    /\ last.ret = Ok(<<last.dest>>)
    /\ last.dest \in DOMAIN dir
    /\ dir[last.dest].bytes = source[last.src].lines

\* C19: best-effort deletion. When the only failures of a call are deletes
\* (fs::remove_file), the pass removes every excluded file of the stem that
\* can be deleted, leaves everything else, and create_backup returns
\* Some(dest).
C19_BestEffortDeletion ==
    (/\ Called /\ last.found.exists
     /\ last.fault.step = "none") =>
        /\ DOMAIN last.listed \ DOMAIN dir
              = ExcludedIn(last.listed, CalledStem) \ last.fault.locked
        /\ \A n \in DOMAIN dir : dir[n] = last.listed[n]
        /\ last.ret = Ok(<<last.dest>>)

\* One excluded file could not be deleted and is still there, another one
\* was deleted, and the call returned the new backup's path.
C19_Witness ==
    /\ Called /\ last.found.exists
    /\ last.fault.step = "none"
    /\ last.fault.locked # {}
    /\ last.fault.locked \subseteq ExcludedIn(last.listed, CalledStem)
    /\ last.fault.locked \subseteq DOMAIN dir
    /\ DOMAIN last.listed \ DOMAIN dir # {}
    /\ last.ret = Ok(<<last.dest>>)

\* C20: prune failures are invisible. Whenever the copy succeeded,
\* create_backup returns Some(dest), whatever fails afterwards in the
\* pruning step.
C20_PruneFailuresInvisible ==
    (Called /\ last.copied) => last.ret = Ok(<<last.dest>>)

-----------------------------------------------------------------------------
(* Claims about a failed copy, fairness of the lock, lock failures *)

\* The last call found its source and failed at create_dir_all or at the copy.
CopyStepFailed ==
    /\ Called
    /\ last.found.exists
    /\ last.fault.step \in {"create_dir_all", "copy"}

\* C21: copy failure. When create_dir_all or fs::copy fails, create_backup
\* returns an error and runs no retention pass: every entry that was in the
\* backup directory before the call is still there, and every entry but the
\* copy's destination is unchanged (a failed create_dir_all changes nothing
\* at all), even when the directory holds more backups than the policy keeps.
C21_CopyFailure ==
    CopyStepFailed =>
        /\ last.ret = Err
        /\ DOMAIN last.pre \subseteq DOMAIN dir
        /\ \A n \in DOMAIN last.pre \ {last.dest} : dir[n] = last.pre[n]
        /\ DOMAIN dir \subseteq DOMAIN last.pre \cup {last.dest}
        /\ last.fault.step = "create_dir_all" =>
              (dir = last.pre /\ dirExists = last.hadDir)

\* The copy failed in a directory holding more backups of the stem than the
\* policy keeps, and all of them are still there.
C21_Witness ==
    /\ CopyStepFailed
    /\ last.fault.step = "copy"
    /\ Cardinality(Matching(last.pre, CalledStem)) > PolicyTotal
    /\ Matching(last.pre, CalledStem) \subseteq DOMAIN dir
    /\ last.dest \in DOMAIN last.pre
    /\ dir[last.dest].bytes # last.pre[last.dest].bytes

\* C24: concurrent readers. A read_items call that waits for the shared lock
\* waits for a writer: whenever no process holds the exclusive lock, the
\* lock_shared() of every waiting reader can return at once, however many
\* readers hold the shared lock.
C24_ConcurrentReaders ==
    \A p \in Procs :
        (pc[p] = "r_lock" /\ excl = NoProc) => ENABLED LockShared(p)

\* Every process holds the shared lock at the same time.
C24_Witness == shared = Procs

\* The last call could not obtain its lock.
LockFailed == last.op \in {"read_lock_failed", "write_lock_failed"}

\* C23: lock failure aborts cleanly. When lock_shared or lock_exclusive
\* fails, read_items / write_items return an error and the record file is as
\* it was before the call: same existence, same content.
C23_LockFailureAbortsCleanly ==
    LockFailed => (last.ret = Err /\ file = last.pre)

\* Process p is inside a read_items or write_items call.
InCall(p) == pc[p] \in {"r_lock", "r_read", "r_unlock",
                         "w_lock", "w_trunc", "w_write", "w_unlock"}

\* C30: no lock leak. A process that is not inside a read_items or
\* write_items call (it has not called yet, or its call returned Ok, or
\* returned an error from any step) holds neither the shared nor the
\* exclusive lock; when no process is inside a call the file is unlocked.
C30_NoLockLeak ==
    /\ \A p \in Procs : ~InCall(p) => (p \notin shared /\ excl # p)
    /\ (\A p \in Procs : ~InCall(p)) => (shared = {} /\ excl = NoProc)

\* A write_items failed after it had taken the exclusive lock, and a later
\* writer holds that lock.
C30_Witness ==
    \E p, q \in Procs :
        /\ pc[p] = "failed"
        /\ lockAt[p] > 0
        /\ excl = q
        /\ lockAt[q] > lockAt[p]

\* C22: no indefinite blocking. Every read_items and every write_items call
\* eventually returns: a process that is inside a call, waiting for its lock
\* or holding it, is outside the call at some later time.
C22_NoIndefiniteBlocking ==
    \A p \in Procs : InCall(p) ~> ~InCall(p)

-----------------------------------------------------------------------------
(* Claims about the determinism of the pass, concurrent calls, the source *)

\* C25: retention determinism. The survivors of a pass depend on the entries,
\* their modification times and the policy only: for every other order in
\* which read_dir could have listed the same directory, the pass leaves the
\* same files.
C25_RetentionDeterminism ==
    Pruned =>
        \A lst \in Orders(listing) :
            enforce_retention(last.pre, lst, last.stem, cfg.keep_recent,
                              cfg.keep_historical, NoFault).dir = dir

\* C28: returned snapshot exists. When create_backup returns Ok(Some(dest)),
\* dest names a file of the backup directory at the moment of the return: the
\* call's own retention pass has not removed it, whatever the policy.
C28_ReturnedSnapshotExists ==
    (Called /\ last.ret.ok /\ last.ret.val # <<>>) =>
        /\ last.ret.val[1] \in DOMAIN dir
        /\ dir[last.ret.val[1]].isFile

\* C29: the source is never touched. A create_backup call leaves every
\* record file as it found it (existence and content), wherever the backup
\* directory is, the directory of the record files included.
C29_SourceUntouched ==
    [][Len(log') > Len(log) => source' = source]_vars

\* The complete contents of the record file: its initial content and what a
\* finished write_items leaves.
CompleteContents == {Encode(c) : c \in passed}

\* C26: no torn snapshot. The content of every backup copied by a
\* create_backup call is a complete content of the record file: the initial
\* one or the one of a collection passed to write_items.
C26_NoTornSnapshot ==
    \A p \in Procs :
        job[p].dest \in DOMAIN dir => dir[job[p].dest].bytes \in CompleteContents

\* C27: pruning under concurrent snapshots. The deletion pass of a process
\* removes only files that its own first listing found and its own
\* keep_paths excludes.
C27_PruneOwnListingOnly ==
    [][\A p \in Procs :
          (pc[p] = "b_prune" /\ pc'[p] = "b_done") =>
              (DOMAIN dir \ DOMAIN dir') \subseteq (job[p].listed \ job[p].keep)]_vars

-----------------------------------------------------------------------------
(* Claims about backup names, the oldest backup, a crash, the callers *)

\* C31: snapshots never overwrite each other. The backup a successful
\* create_backup call writes has a name that no entry of the directory had
\* before the call, so no earlier backup is replaced, also when two calls
\* for the same source fall into the same second.
C31_SnapshotsNeverOverwrite ==
    (Called /\ last.copied) => last.dest \notin DOMAIN last.pre

\* The oldest entries of the stem that the pass found (one, with distinct
\* modification times).
OldestEntries ==
    {n \in StemEntries : RankOf(n) = Cardinality(StemEntries) - 1}

\* C32: the oldest snapshot is always pruned. A pass over regular files with
\* distinct modification times that deletes at least one file deletes the
\* oldest backup of the stem.
C32_OldestPruned ==
    (/\ Pruned
     /\ \A n \in StemEntries : last.pre[n].isFile
     /\ DeletedByPass # {}) =>
        (OldestEntries # {} /\ OldestEntries \subseteq DeletedByPass)

\* A pass with keep_historical > 0 kept a stride sample of the older files
\* and deleted the oldest one.
C32_Witness ==
    /\ Pruned
    /\ \A n \in StemEntries : last.pre[n].isFile
    /\ cfg.keep_historical > 1
    /\ RestLen > cfg.keep_historical + 1
    /\ \E n \in StemEntries \cap DOMAIN dir : RankOf(n) > cfg.keep_recent
    /\ OldestEntries # {}
    /\ OldestEntries \subseteq DeletedByPass

\* C33: crash window. When write_items fails or its process dies after the
\* truncation and before the last row is flushed, the exclusive lock is
\* released and the record file holds what had been written of the new
\* content until then (nothing, or its first rows), the old content being
\* gone; a read_items that reads the file returns what these rows decode to.
C33_CrashWindow ==
    [][\A p \in Procs :
          /\ (pc[p] = "w_write" /\ pc'[p] = "failed") =>
                /\ excl' = NoProc
                /\ file' = Content(Take(Encode(items[p]), woff[p]))
          /\ (pc[p] = "r_read" /\ pc'[p] = "r_unlock") =>
                items'[p] = Decode(file.lines)]_vars

\* A writer that had read a non-empty collection failed in the middle of its
\* rows, and a later reader got the partial content, which is neither the
\* old nor the new collection.
C33_Witness ==
    \E p, q \in Procs :
        /\ p # q
        /\ pc[p] = "failed"
        /\ lockAt[p] > 0
        /\ lockAt[p] = lockCount
        /\ got[p] # <<>>
        /\ file.lines = Take(Encode(items[p]), woff[p])
        /\ Decode(file.lines) \notin {got[p], items[p]}
        /\ pc[q] = "loaded"
        /\ readAt[q] = lockCount
        /\ got[q] = Decode(file.lines)
        /\ excl = NoProc

-----------------------------------------------------------------------------
(* Claims about the commands of the CLI and the actions of the UI *)

\* The last command called write_items on items.csv.
SaveAttempted == "write" \in Range(last.calls)

\* The calls of the last command that save or back up, in their order.
SaveAndBackup == SelectSeq(last.calls, LAMBDA c : c \in {"write", "backup"})

\* C34: caller composition order. A command or UI action that saves the
\* record file calls create_backup for it after the save and only when the
\* save succeeded: a successful save is followed by one create_backup, a
\* failed one by none, and none comes before the save.
C34_BackupAfterSuccessfulSave ==
    SaveAttempted => SaveAndBackup = (IF last.saveOk THEN <<"write", "backup">>
                              ELSE <<"write">>)

\* What a command that ends with an error tells the user.
ErrorReports == {"error", "Save failed", "Import failed"}

\* C35: save failures surface. A command or UI action whose write_items
\* failed reports an error to the user, and not success.
C35_SaveFailureReported ==
    (SaveAttempted /\ ~last.saveOk) => last.reported \in ErrorReports

\* No two records of the collection share an identifier.
UniqueIds(c) == \A i, j \in 1..Len(c) : IdOf(c[i]) = IdOf(c[j]) => i = j

\* C36: identifier uniqueness. After any sequence of add, edit, delete and
\* import, by the CLI or the UI, neither the collection in memory nor the
\* one in the record file holds two records of the same identifier.
C36_UniqueIdentifiers ==
    /\ UniqueIds(items[Ui])
    /\ UniqueIds(Decode(file.lines))

====
